---------------------------- MODULE Spec2Model ----------------------------
(***************************************************************************)
(* A model of @purinton/mcp-server: the express middleware chain of        *)
(* index.mjs / index.cjs (JSON body parsing, request and response logging, *)
(* bearer authorization, the two routes), the bearer-token bridge of       *)
(* index.cjs and of BearerStreamableHTTPServerTransport, the credential    *)
(* extraction and the response body capture.                               *)
(*                                                                         *)
(* JavaScript strings are sequences of one-character strings; the value    *)
(* undefined is the one-element sequence Undefined, which no string        *)
(* equals.  JavaScript runs a handler to completion: a request is          *)
(* interleaved with others only where its handler awaits.                  *)
(***************************************************************************)
EXTENDS Integers, Sequences, FiniteSets, Bags, TLC

(***************************************************************************)
(* JavaScript values and string primitives                                 *)
(***************************************************************************)

Undefined == <<"undefined">>

\* "" and undefined are falsy, every other string is truthy
Truthy(v) == v # Undefined /\ v # <<>>

\* a || b
Or(a, b) == IF Truthy(a) THEN a ELSE b

\* ECMAScript WhiteSpace, as far as the inputs below use it: the space and
\* U+00A0 (written "nbsp"), which a header value may carry on the wire
WhiteSpace == {" ", "nbsp"}

\* String.prototype.startsWith
StartsWith(s, p) == Len(s) >= Len(p) /\ SubSeq(s, 1, Len(p)) = p

\* String.prototype.slice(n), 0 <= n
Slice(s, n) == SubSeq(s, n + 1, Len(s))

RECURSIVE TrimStart(_)
TrimStart(s) ==
    IF s # <<>> /\ Head(s) \in WhiteSpace THEN TrimStart(Tail(s)) ELSE s

RECURSIVE TrimEnd(_)
TrimEnd(s) ==
    IF s # <<>> /\ s[Len(s)] \in WhiteSpace
    THEN TrimEnd(SubSeq(s, 1, Len(s) - 1))
    ELSE s

\* String.prototype.trim
Trim(s) == TrimEnd(TrimStart(s))

BearerPrefix == <<"B", "e", "a", "r", "e", "r", " ">>

(***************************************************************************)
(* Credential extraction                                                   *)
(***************************************************************************)

\* req.headers['authorization'] || req.headers['Authorization']
AuthHeader(headers) == Or(headers.authorization, headers.Authorization)

\* authHeader && authHeader.startsWith('Bearer ')
HasBearerScheme(authHeader) ==
    Truthy(authHeader) /\ StartsWith(authHeader, BearerPrefix)

\* authHeader && authHeader.startsWith('Bearer ')
\*     ? authHeader.slice('Bearer '.length).trim() : undefined
ExtractToken(authHeader) ==
    IF HasBearerScheme(authHeader)
    THEN Trim(Slice(authHeader, Len(BearerPrefix)))
    ELSE Undefined

(***************************************************************************)
(* Credential extraction applied to bounded header values                  *)
(***************************************************************************)

MaxRestLen == 2

RestChars == {" ", "nbsp", "x", "y"}

RECURSIVE SeqsUpTo(_, _)
SeqsUpTo(S, n) ==
    IF n = 0 THEN {<<>>}
    ELSE LET shorter == SeqsUpTo(S, n - 1)
         IN  shorter \cup {Append(s, c) : s \in shorter, c \in S}

SchemePrefixes ==
    { BearerPrefix,
      <<"b", "e", "a", "r", "e", "r", " ">>,
      <<"B", "e", "a", "r", "e", "r">>,
      <<"B", "a", "s", "i", "c", " ">>,
      <<>> }

HeaderValues ==
    {Undefined} \cup {p \o r : p \in SchemePrefixes, r \in SeqsUpTo(RestChars, MaxRestLen)}

\* node lower-cases the names of incoming headers: 'Authorization' is no key
HeaderObjects == [authorization : HeaderValues, Authorization : {Undefined}]

VARIABLES exHeaders, exToken, exPc

extractVars == <<exHeaders, exToken, exPc>>

NoHeaders == [authorization |-> Undefined, Authorization |-> Undefined]

Extract ==
    /\ exPc = "start"
    /\ exToken' = ExtractToken(AuthHeader(exHeaders))
    /\ exPc' = "done"
    /\ UNCHANGED exHeaders


(***************************************************************************)
(* Response objects and the body capture wrappers                          *)
(***************************************************************************)

\* What a caller hands to send / write / end: a string, a Buffer or nothing
Str(s) == [t |-> "str", v |-> s]
Buf(b) == [t |-> "buf", v |-> b]
NoArg == [t |-> "undef", v |-> <<>>]

\* if (body) / if (chunk): a Buffer is an object, hence truthy; a string is
\* truthy unless empty
PayloadTruthy(p) == p.t = "buf" \/ (p.t = "str" /\ p.v # <<>>)

\* UTF-8: an ASCII character is the one byte of its own code ("a" names both);
\* "E" is U+00E9, the two bytes c3 a9
Utf8Char(c) == IF c = "E" THEN <<"c3", "a9">> ELSE <<c>>

RECURSIVE Utf8Encode(_)
Utf8Encode(s) ==
    IF s = <<>> THEN <<>> ELSE Utf8Char(Head(s)) \o Utf8Encode(Tail(s))

\* Buffer.prototype.toString('utf8'): an ill-formed byte decodes to U+FFFD
RECURSIVE Utf8Decode(_)
Utf8Decode(b) ==
    IF b = <<>> THEN <<>>
    ELSE IF Len(b) >= 2 /\ b[1] = "c3" /\ b[2] = "a9"
         THEN <<"E">> \o Utf8Decode(SubSeq(b, 3, Len(b)))
    ELSE IF Head(b) \in {"c3", "a9"}
         THEN <<"FFFD">> \o Utf8Decode(Tail(b))
    ELSE <<Head(b)>> \o Utf8Decode(Tail(b))

\* Buffer.isBuffer(x) ? x : Buffer.from(x)
ToBuffer(p) == IF p.t = "buf" THEN p.v ELSE Utf8Encode(p.v)

\* Buffer.concat
RECURSIVE BufferConcat(_)
BufferConcat(chunks) ==
    IF chunks = <<>> THEN <<>> ELSE Head(chunks) \o BufferConcat(Tail(chunks))

\* A fresh response: express's own send, write and end are installed.  wire
\* lists the calls that reach the original primitives, sent the bytes that
\* leave for the client.
NewResponse ==
    [ send |-> "orig", write |-> "orig", end |-> "orig",
      statusCode |-> 200, headersSent |-> FALSE, finished |-> FALSE,
      threw |-> FALSE,
      chunks |-> <<>>, logged |-> <<>>, capReq |-> <<>>,
      wire |-> <<>>, sent |-> <<>> ]

\* res.status(code)
SetStatus(res, code) == [res EXCEPT !.statusCode = code]

\* The response logging middleware past its GET / guard: the three wrappers
\* are installed, closing over req and an empty chunks array
InstallCapture(res, method, url) ==
    [res EXCEPT !.send = "wrapped", !.write = "wrapped", !.end = "wrapped",
                !.chunks = <<>>, !.capReq = <<method, url>>]

\* ---- the original primitives (node's http.ServerResponse, express) ----

\* oldEnd: the chunk, if any, goes out and the response is finished; a second
\* end does nothing
OrigEnd(res, chunk) ==
    [res EXCEPT !.wire = Append(@, [op |-> "end", arg |-> chunk]),
                !.sent = IF res.finished THEN @ ELSE @ \o ToBuffer(chunk),
                !.headersSent = TRUE,
                !.finished = TRUE]

\* oldWrite: the chunk goes out and the headers with it; after end nothing does
OrigWrite(res, chunk) ==
    [res EXCEPT !.wire = Append(@, [op |-> "write", arg |-> chunk]),
                !.sent = IF res.finished THEN @ ELSE @ \o ToBuffer(chunk),
                !.headersSent = IF res.finished THEN @ ELSE TRUE]

\* ---- the wrappers ----

\* res.end = function (chunk, ...args) { ... }
WrappedEnd(res, chunk) ==
    LET chunks == IF PayloadTruthy(chunk)
                  THEN Append(res.chunks, ToBuffer(chunk))
                  ELSE res.chunks
        bodyText == IF chunks # <<>> THEN Utf8Decode(BufferConcat(chunks)) ELSE <<>>
        logLine == [method |-> res.capReq[1], url |-> res.capReq[2],
                    status |-> res.statusCode, body |-> bodyText]
    IN  OrigEnd([res EXCEPT !.chunks = chunks,
                            !.logged = Append(@, logLine),
                            !.end = "orig"],
                chunk)

\* res.end(chunk): whatever is installed at res.end is called
CallEnd(res, chunk) ==
    IF res.end = "wrapped" THEN WrappedEnd(res, chunk) ELSE OrigEnd(res, chunk)

\* a write wrapper that hands oldWrite the Buffer it captured, not the chunk
WrappedWrite_PassesCopy(res, chunk) ==
    LET chunks == IF PayloadTruthy(chunk)
                  THEN Append(res.chunks, ToBuffer(chunk))
                  ELSE res.chunks
    IN  OrigWrite([res EXCEPT !.chunks = chunks],
                  IF PayloadTruthy(chunk) THEN Buf(ToBuffer(chunk)) ELSE chunk)

\* res.write = function (chunk, ...args) { ... }
WrappedWrite(res, chunk) ==
    LET chunks == IF PayloadTruthy(chunk)
                  THEN Append(res.chunks, ToBuffer(chunk))
                  ELSE res.chunks
    IN  OrigWrite([res EXCEPT !.chunks = chunks], chunk)

CallWrite(res, chunk) ==
    IF res.write = "wrapped" THEN WrappedWrite(res, chunk) ELSE OrigWrite(res, chunk)

\* oldSend, express's res.send for a string or a Buffer: it sets the headers,
\* which throws once they are sent, and then calls this.end with the body as
\* a Buffer, that is, whatever is installed at res.end
OrigSend(res, body) ==
    LET delivered == [res EXCEPT !.wire = Append(@, [op |-> "send", arg |-> body])]
    IN  IF res.headersSent
        THEN [delivered EXCEPT !.threw = TRUE]
        ELSE CallEnd(delivered,
                     IF body.t = "undef" THEN NoArg ELSE Buf(ToBuffer(body)))

\* res.send = function (body) { ... }
WrappedSend(res, body) ==
    LET chunks == IF PayloadTruthy(body)
                  THEN Append(res.chunks, ToBuffer(body))
                  ELSE res.chunks
    IN  OrigSend([res EXCEPT !.chunks = chunks, !.send = "orig"], body)

CallSend(res, body) ==
    IF res.send = "wrapped" THEN WrappedSend(res, body) ELSE OrigSend(res, body)

(***************************************************************************)
(* The capture wrappers against the bare response: one response with the   *)
(* wrappers installed and one without receive the same calls               *)
(***************************************************************************)

MaxCalls == 3

Payloads ==
    {NoArg, Str(<<>>), Str(<<"a">>), Str(<<"E">>), Buf(<<"c3">>)}

VARIABLES capWrapped, capPlain, capCalls

captureVars == <<capWrapped, capPlain, capCalls>>

CaptureSend ==
    /\ Len(capCalls) < MaxCalls
    /\ \E p \in Payloads :
          /\ capWrapped' = CallSend(capWrapped, p)
          /\ capPlain' = CallSend(capPlain, p)
    /\ capCalls' = Append(capCalls, "send")

CaptureWrite ==
    /\ Len(capCalls) < MaxCalls
    /\ \E p \in Payloads :
          /\ capWrapped' = CallWrite(capWrapped, p)
          /\ capPlain' = CallWrite(capPlain, p)
    /\ capCalls' = Append(capCalls, "write")

CaptureEnd ==
    /\ Len(capCalls) < MaxCalls
    /\ \E p \in Payloads :
          /\ capWrapped' = CallEnd(capWrapped, p)
          /\ capPlain' = CallEnd(capPlain, p)
    /\ capCalls' = Append(capCalls, "end")

(***************************************************************************)
(* The HTTP front end of index.mjs: express.json(), the JSON error         *)
(* handler, the request and response logging middleware, the auth          *)
(* middleware and the routes GET / and POST /                              *)
(***************************************************************************)

MaxInFlight == 2

\* the options authToken and authCallback of mcpServer(); the requests whose
\* handler is suspended at an await; what the last step did
VARIABLES authToken, authCallback, inflight, ev

serverVars == <<authToken, authCallback, inflight, ev>>

StaticToken == <<"x">>

\* authToken: unset, or a token
AuthTokens == {Undefined, StaticToken}

Methods == {"GET", "POST"}

\* req.url: the path with the query string, if any
Urls == {<<"/">>, <<"/", "?", "q">>}

\* what express.json() makes of the body: parsed, parsed into arrays nested so
\* deep that JSON.stringify throws a RangeError on the result, a SyntaxError
\* (status 400, with the body), or another error such as a body over the
\* size limit
Bodies == {"valid", "deep", "malformed", "tooLarge"}

\* express.json() called next() without an error
Parsed(body) == body \in {"valid", "deep"}

Bearer(tok) == BearerPrefix \o tok

ServerHeaderValues ==
    { Undefined, Bearer(<<"x">>), Bearer(<<"y">>), <<"B", "a", "s", "i", "c", " ", "x">> }

\* every method, URL and header with the three usual outcomes of the parser;
\* the deeply nested body under one header
Requests ==
    [ method : Methods, url : Urls, body : Bodies \ {"deep"},
      headers : [authorization : ServerHeaderValues, Authorization : {Undefined}] ]
    \cup
    [ method : Methods, url : Urls, body : {"deep"},
      headers : [authorization : {Bearer(<<"x">>)}, Authorization : {Undefined}] ]

\* The state of one request on its way down the chain: req, res and what the
\* handlers did for it (the objects handed to res.json, the records logged,
\* the arguments authCallback was called with and how its promise settled,
\* the calls of transport.handleRequest)
NewContext(q) ==
    [ method |-> q.method, url |-> q.url, body |-> q.body, headers |-> q.headers,
      res |-> NewResponse,
      token |-> Undefined, decision |-> "none",
      jsons |-> <<>>, logs |-> <<>>, cbArgs |-> <<>>, cbResult |-> "none",
      dispatched |-> 0 ]

NoContext ==
    NewContext([method |-> "none", url |-> <<>>, body |-> "none", headers |-> NoHeaders])

NoEvent == [kind |-> "none", c |-> NoContext]

\* an object handed to res.json; NoDetails marks the key details as missing
NoDetails == "<no details>"
ErrorObject(error) == [error |-> error, details |-> NoDetails]
ErrorObjectWithDetails(error, details) == [error |-> error, details |-> details]

\* JSON.stringify of such an object
JsonStringify(obj) ==
    IF obj.details = NoDetails
    THEN <<"{", "error", ":", obj.error, "}">>
    ELSE <<"{", "error", ":", obj.error, ",", "details", ":", obj.details, "}">>

\* res.status(code).json(obj): express's json() stringifies and calls
\* this.send(body)
RespondJson(c, code, obj) ==
    [c EXCEPT !.res = CallSend(SetStatus(c.res, code), Str(JsonStringify(obj))),
              !.jsons = Append(@, obj)]

\* url.parse(req.url).pathname, on which express matches a route
RECURSIVE PathOf(_)
PathOf(url) ==
    IF url = <<>> \/ Head(url) = "?" THEN <<>> ELSE <<Head(url)>> \o PathOf(Tail(url))

IsExactGetRoot(c) == c.method = "GET" /\ c.url = <<"/">>

\* ---- app.use((err, req, res, next) => ...) ----

\* express's default error handler, reached by next(err): the error's status
\* and an HTML page
DefaultErrorHandler(c) ==
    [c EXCEPT !.res = CallEnd(SetStatus(c.res, 413), Str(<<"<pre>", "PayloadTooLargeError", "</pre>">>))]

\* a handler that answers 400, the status of the parser's error
JsonErrorHandler_BadRequest(c) ==
    IF c.body = "malformed"
    THEN RespondJson(c, 400, ErrorObject("Invalid JSON"))
    ELSE DefaultErrorHandler(c)

JsonErrorHandler(c) ==
    IF c.body = "malformed"
    THEN RespondJson(c, 406, ErrorObject("Invalid JSON"))
    ELSE DefaultErrorHandler(c)

\* ---- the request logging middleware ----

BodyJson == <<"{", "jsonrpc", "}">>

UnserializableBody == <<"[unserializable body]">>

LogEntry(tag, c, bodyText) ==
    [tag |-> tag, method |-> c.method, url |-> c.url, body |-> bodyText]

\* a middleware whose JSON.stringify is outside any try: the RangeError
\* leaves the middleware before log.debug
RequestLog_NoCatch(c) ==
    IF IsExactGetRoot(c) \/ c.body = "deep"
    THEN c
    ELSE [c EXCEPT !.logs = Append(@, LogEntry("HTTP", c, BodyJson))]

\* bodyText is JSON.stringify(req.body), or the placeholder if that throws
RequestLog(c) ==
    IF IsExactGetRoot(c)
    THEN c
    ELSE LET bodyText == IF c.body = "deep" THEN UnserializableBody ELSE BodyJson
         IN  [c EXCEPT !.logs = Append(@, LogEntry("HTTP", c, bodyText))]

\* ---- the response logging middleware ----

\* a middleware that passes over every GET
ResponseLog_SkipsGet(c) ==
    IF c.method = "GET"
    THEN c
    ELSE [c EXCEPT !.res = InstallCapture(c.res, c.method, c.url)]

ResponseLog(c) ==
    IF IsExactGetRoot(c)
    THEN c
    ELSE [c EXCEPT !.res = InstallCapture(c.res, c.method, c.url)]

\* ---- the routes ----

GetRootBody == <<"GET / endpoint - no action">>

\* app.get('/'): res.status(200).send('GET / endpoint - no action')
GetRoot(c) ==
    [pc |-> "done", c |-> [c EXCEPT !.res = CallSend(SetStatus(c.res, 200), Str(GetRootBody))]]

\* app.post('/'): transport.handleRequest(req, res, req.body) is called and
\* awaited
PostRoot(c) ==
    [pc |-> "dispatch", c |-> [c EXCEPT !.dispatched = @ + 1]]

\* no route matches: express's final handler answers 404
NotFound(c) ==
    [pc |-> "done", c |-> [c EXCEPT !.res = CallEnd(SetStatus(c.res, 404), Str(<<"<pre>", "Cannot", "</pre>">>))]]

Route(c) ==
    IF c.method = "GET" /\ PathOf(c.url) = <<"/">> THEN GetRoot(c)
    ELSE IF c.method = "POST" /\ PathOf(c.url) = <<"/">> THEN PostRoot(c)
    ELSE NotFound(c)

\* ---- the auth middleware ----

\* if (req.method === 'POST' && req.url === '/')
AuthGuard(c) == c.method = "POST" /\ c.url = <<"/">>

\* the three checks without the comparison of the token
StaticDecision_NoCompare(configured, authHeader, token) ==
    IF ~Truthy(configured) THEN "misconfigured"
    ELSE IF ~Truthy(authHeader) \/ ~StartsWith(authHeader, BearerPrefix) THEN "missing"
    ELSE "allowed"

\* the three checks with the header looked at before the configuration
StaticDecision_HeaderFirst(configured, authHeader, token) ==
    IF ~Truthy(authHeader) \/ ~StartsWith(authHeader, BearerPrefix) THEN "missing"
    ELSE IF ~Truthy(configured) THEN "misconfigured"
    ELSE IF token # configured THEN "invalid"
    ELSE "allowed"

\* the else branch of if (authCallback): the three checks in their order
StaticDecision(configured, authHeader, token) ==
    IF ~Truthy(configured) THEN "misconfigured"
    ELSE IF ~Truthy(authHeader) \/ ~StartsWith(authHeader, BearerPrefix) THEN "missing"
    ELSE IF token # configured THEN "invalid"
    ELSE "allowed"

\* a catch that answers like a falsy result
CallbackDecision_ThrowDenied(outcome) ==
    IF outcome = "truthy" THEN "allowed" ELSE "callbackDenied"

\* const result = await authCallback(token), in its try / catch
CallbackDecision(outcome) ==
    IF outcome = "throws" THEN "callbackError"
    ELSE IF outcome = "falsy" THEN "callbackDenied"
    ELSE "allowed"

AuthStatus(decision) ==
    IF decision \in {"misconfigured", "callbackError"} THEN 500 ELSE 401

AuthErrorObject(decision) ==
    IF decision = "misconfigured" THEN ErrorObject("MCP_TOKEN not set in environment")
    ELSE IF decision = "missing" THEN ErrorObject("Missing or invalid Authorization header")
    ELSE IF decision = "invalid" THEN ErrorObject("Invalid bearer token")
    ELSE IF decision = "callbackDenied" THEN ErrorObject("Invalid bearer token (authCallback)")
    ELSE ErrorObjectWithDetails("Auth callback error", "err.stack")

\* the error response without its return: next() is called after it
AuthReject_CallsNext(c) ==
    Route(RespondJson(c, AuthStatus(c.decision), AuthErrorObject(c.decision)))

\* return res.status(...).json(...): next() is not called
AuthReject(c) ==
    [pc |-> "done", c |-> RespondJson(c, AuthStatus(c.decision), AuthErrorObject(c.decision))]

\* the decision is in c.decision: next() or the error response
AuthDecided(c) ==
    IF c.decision = "allowed" THEN Route(c) ELSE AuthReject(c)

\* an auth middleware that asks the callback only when no static token is set
AuthMiddleware_StaticFirst(c, configured, callback) ==
    IF ~AuthGuard(c)
    THEN Route(c)
    ELSE LET authHeader == AuthHeader(c.headers)
             token == ExtractToken(authHeader)
         IN  IF callback /\ ~Truthy(configured)
             THEN [pc |-> "awaitAuth",
                   c |-> [c EXCEPT !.token = token, !.cbArgs = Append(@, token)]]
             ELSE AuthDecided([c EXCEPT !.token = token,
                                        !.decision = StaticDecision(configured, authHeader, token)])

\* an auth middleware that turns down a request without a bearer header
\* before it asks the callback
AuthMiddleware_HeaderRequired(c, configured, callback) ==
    IF ~AuthGuard(c)
    THEN Route(c)
    ELSE LET authHeader == AuthHeader(c.headers)
             token == ExtractToken(authHeader)
         IN  IF callback /\ Truthy(token)
             THEN [pc |-> "awaitAuth",
                   c |-> [c EXCEPT !.token = token, !.cbArgs = Append(@, token)]]
             ELSE IF callback
             THEN AuthDecided([c EXCEPT !.token = token, !.decision = "missing"])
             ELSE AuthDecided([c EXCEPT !.token = token,
                                        !.decision = StaticDecision(configured, authHeader, token)])

\* the auth middleware up to its first await, if any, under the options
\* authToken = configured and authCallback (set or not)
AuthMiddleware(c, configured, callback) ==
    IF ~AuthGuard(c)
    THEN Route(c)
    ELSE LET authHeader == AuthHeader(c.headers)
             token == ExtractToken(authHeader)
         IN  IF callback
             THEN [pc |-> "awaitAuth",
                   c |-> [c EXCEPT !.token = token, !.cbArgs = Append(@, token)]]
             ELSE AuthDecided([c EXCEPT !.token = token,
                                        !.decision = StaticDecision(configured, authHeader, token)])

\* ---- the chain ----

\* a request from express.json() to the first await of its handlers, or to
\* its response
Chain(q, configured, callback) ==
    LET c == NewContext(q)
    IN  IF ~Parsed(q.body)
        THEN [pc |-> "done", c |-> JsonErrorHandler(c)]
        ELSE AuthMiddleware(ResponseLog(RequestLog(c)), configured, callback)

\* what the chain makes of the requests of Requests, under each configuration
ChainOf ==
    [configured \in AuthTokens, callback \in BOOLEAN |->
        {Chain(q, configured, callback) : q \in Requests}]

Suspend(r) == SetToBag({r})

EventOf(r) ==
    [kind |-> IF r.pc = "done" THEN "responded"
              ELSE IF r.pc = "awaitAuth" THEN "awaiting"
              ELSE "dispatching",
     c |-> r.c]

\* a server that takes no request while a handler awaits
Receive_OneAtATime ==
    /\ inflight = EmptyBag
    /\ \E r \in ChainOf[authToken, authCallback] :
          /\ inflight' = IF r.pc = "done" THEN inflight ELSE inflight (+) Suspend(r)
          /\ ev' = EventOf(r)
    /\ UNCHANGED <<authToken, authCallback>>

\* A request arrives, its body is read, and the chain runs until a handler
\* awaits or the response is finished.
Receive ==
    /\ BagCardinality(inflight) < MaxInFlight
    /\ \E r \in ChainOf[authToken, authCallback] :
          /\ inflight' = IF r.pc = "done" THEN inflight ELSE inflight (+) Suspend(r)
          /\ ev' = EventOf(r)
    /\ UNCHANGED <<authToken, authCallback>>

\* the requests the chain leaves waiting for authCallback(token), under any
\* configuration
Awaiting ==
    {r \in UNION {ChainOf[configured, callback] :
                     configured \in AuthTokens, callback \in BOOLEAN} : r.pc = "awaitAuth"}

CallbackOutcomes == {"truthy", "falsy", "throws"}

\* the auth middleware from its await on, for each of these requests and each
\* way the promise settles
Resumed ==
    [r \in Awaiting, outcome \in CallbackOutcomes |->
        AuthDecided([r.c EXCEPT !.cbResult = outcome,
                                !.decision = CallbackDecision(outcome)])]

\* an auth middleware without its catch: a rejected promise of authCallback
\* leaves the request where it is, never answered
AuthCallbackSettles_Uncaught ==
    /\ \E r \in BagToSet(inflight), outcome \in CallbackOutcomes :
          /\ r.pc = "awaitAuth"
          /\ LET c2 == [r.c EXCEPT !.cbResult = outcome,
                                   !.decision = CallbackDecision(outcome)]
                 r2 == IF outcome = "throws" THEN [pc |-> "unhandled", c |-> c2]
                       ELSE Resumed[r, outcome]
             IN  /\ inflight' = IF r2.pc = "done"
                                THEN inflight (-) Suspend(r)
                                ELSE (inflight (-) Suspend(r)) (+) Suspend(r2)
                 /\ ev' = IF outcome = "throws" THEN [kind |-> "awaiting", c |-> c2]
                          ELSE EventOf(r2)
    /\ UNCHANGED <<authToken, authCallback>>

\* The first request of a server arrives: the chain runs for it with no
\* other request in a handler.
ReceiveOne ==
    /\ ev = NoEvent
    /\ Receive

\* The promise of authCallback(token) settles: the auth middleware resumes.
AuthCallbackSettles ==
    /\ \E r \in BagToSet(inflight), outcome \in CallbackOutcomes :
          /\ r.pc = "awaitAuth"
          /\ LET r2 == Resumed[r, outcome]
             IN  /\ inflight' = IF r2.pc = "done"
                                THEN inflight (-) Suspend(r)
                                ELSE (inflight (-) Suspend(r)) (+) Suspend(r2)
                 /\ ev' = EventOf(r2)
    /\ UNCHANGED <<authToken, authCallback>>

\* ---- transport.handleRequest, the dispatcher: what it does to the response
\* is its own; the model follows a streamed response up to its first chunk ----

DispatcherStatuses == {200, 406}

\* the dispatcher sends the headers and a first chunk
DispatcherWrites ==
    /\ \E r \in BagToSet(inflight) :
          /\ r.pc = "dispatch"
          /\ ~r.c.res.headersSent
          /\ LET r2 == [r EXCEPT !.c.res = CallWrite(SetStatus(@, 200), Str(<<"event">>))]
             IN  /\ inflight' = (inflight (-) Suspend(r)) (+) Suspend(r2)
                 /\ ev' = [kind |-> "wrote", c |-> r2.c]
    /\ UNCHANGED <<authToken, authCallback>>

\* the dispatcher ends the response and handleRequest resolves
DispatcherEnds ==
    /\ \E r \in BagToSet(inflight), status \in DispatcherStatuses :
          /\ r.pc = "dispatch"
          /\ LET res == IF r.c.res.headersSent
                        THEN CallEnd(r.c.res, NoArg)
                        ELSE CallEnd(SetStatus(r.c.res, status), Str(<<"result">>))
             IN  /\ inflight' = inflight (-) Suspend(r)
                 /\ ev' = [kind |-> "dispatched", c |-> [r.c EXCEPT !.res = res]]
    /\ UNCHANGED <<authToken, authCallback>>

\* a catch that answers 500 without looking at res.headersSent
PostRootCatch_AlwaysAnswers(c) ==
    RespondJson([c EXCEPT !.logs = Append(@, LogEntry("error", c, <<>>))],
                500, ErrorObjectWithDetails("Internal MCP server error", "err.stack"))

\* catch (err) of app.post('/')
PostRootCatch(c) ==
    LET logged == [c EXCEPT !.logs = Append(@, LogEntry("error", c, <<>>))]
    IN  IF ~c.res.headersSent
        THEN RespondJson(logged, 500, ErrorObjectWithDetails("Internal MCP server error", "err.stack"))
        ELSE logged

\* the requests handed to transport.handleRequest, under any configuration:
\* by the chain or by the auth middleware past its await, before the
\* dispatcher has written anything and after
Handed ==
    LET straight == {r \in UNION {ChainOf[configured, callback] :
                                     configured \in AuthTokens, callback \in BOOLEAN} :
                        r.pc = "dispatch"}
        late == {Resumed[r, "truthy"] : r \in Awaiting}
        unwritten == {r \in straight \union late : r.pc = "dispatch"}
    IN  unwritten \union
        {[r EXCEPT !.c.res = CallWrite(SetStatus(@, 200), Str(<<"event">>))] : r \in unwritten}

\* the catch of app.post('/') for each of these requests
Caught == [r \in Handed |-> PostRootCatch(r.c)]

\* handleRequest throws or rejects
DispatcherThrows ==
    /\ \E r \in BagToSet(inflight) :
          /\ r.pc = "dispatch"
          /\ inflight' = inflight (-) Suspend(r)
          /\ ev' = [kind |-> "failed", c |-> Caught[r]]
    /\ UNCHANGED <<authToken, authCallback>>

(***************************************************************************)
(* The bearer token bridge: transport.handleRequest as index.cjs patches   *)
(* it, and as BearerStreamableHTTPServerTransport overrides it             *)
(***************************************************************************)

MaxHandling == 2

\* which of the two bridges the transport carries; the entry 'tools/call' of
\* mcpServer.server._requestHandlers; global.__currentBearerToken__; the
\* calls of handleRequest that are with the dispatcher; what the last step did
VARIABLES bridge, requestHandlers, currentBearerToken, handling, toolEv

bridgeVars == <<bridge, requestHandlers, currentBearerToken, handling, toolEv>>

Bridges == {"patch", "subclass"}

\* _requestHandlers['tools/call']: nothing, the handler the dispatcher
\* registered, or the closure of index.cjs around it with the bearerToken it
\* closed over; depth counts the closures around the registered handler
NoToolsCall ==
    [present |-> FALSE, bearerPatch |-> FALSE, bearerToken |-> Undefined, depth |-> 0]

CallToolHandler ==
    [present |-> TRUE, bearerPatch |-> FALSE, bearerToken |-> Undefined, depth |-> 0]

\* An extra object by the keys it is followed on: bearerToken, and sessionId
\* and requestId for the keys the bridge knows nothing of; undefined for a
\* key the object lacks
Extra(bearerToken, sessionId, requestId) ==
    [bearerToken |-> bearerToken, sessionId |-> sessionId, requestId |-> requestId]

\* the extra the dispatcher hands to a request handler: it knows no bearerToken
OrigExtra == Extra(Undefined, <<"s">>, <<"1">>)

\* the sessionId of the extra a caller of transport.handleRequest passes:
\* app.post('/') passes none, the transport is returned to the caller of
\* mcpServer() as well
SessionIds == {Undefined, <<"s">>}

\* toolEv: the step; the request's headers; the extra handed on (ctx or
\* mergedExtra); the extra object the step was called with, as it was at the
\* call (passed) and as it is after it (after); the global slot
NoToolEvent ==
    [kind |-> "none", headers |-> NoHeaders, extra |-> OrigExtra,
     passed |-> OrigExtra, after |-> OrigExtra, slot |-> Undefined]

\* let bearerToken = extra.bearerToken; if it is falsy and the header has the
\* bearer scheme, the token of the header
BridgeToken(headers, extraToken) ==
    IF ~Truthy(extraToken) /\ HasBearerScheme(AuthHeader(headers))
    THEN Trim(Slice(AuthHeader(headers), Len(BearerPrefix)))
    ELSE extraToken

\* a keeper of the first token: the slot is written only while it is unset
SetSlot_KeepsFirst(slot, bearerToken) ==
    IF Truthy(bearerToken) /\ ~Truthy(slot) THEN bearerToken ELSE slot

\* if (bearerToken) global.__currentBearerToken__ = bearerToken
SetSlot(slot, bearerToken) == IF Truthy(bearerToken) THEN bearerToken ELSE slot

\* a patch that does not look at __bearerPatch: every request wraps the entry
\* once more
PatchToolsCall_Unmarked(callToolHandler, bearerToken) ==
    IF callToolHandler.present
    THEN [present |-> TRUE, bearerPatch |-> TRUE, bearerToken |-> bearerToken,
          depth |-> callToolHandler.depth + 1]
    ELSE callToolHandler

\* if (callToolHandler && !callToolHandler.__bearerPatch): the entry becomes
\* a closure over this call's bearerToken, marked __bearerPatch
PatchToolsCall(callToolHandler, bearerToken) ==
    IF callToolHandler.present /\ ~callToolHandler.bearerPatch
    THEN [present |-> TRUE, bearerPatch |-> TRUE, bearerToken |-> bearerToken,
          depth |-> callToolHandler.depth + 1]
    ELSE callToolHandler

\* the entry called with (request, origExtra): the closure hands the
\* registered handler Object.assign({}, origExtra, { bearerToken })
MergedExtra(handler, origExtra) ==
    IF handler.bearerPatch
    THEN [origExtra EXCEPT !.bearerToken = handler.bearerToken]
    ELSE origExtra

Handling(headers, ctx) ==
    SetToBag({[headers |-> headers, ctx |-> ctx]})

\* const ctx = Object.assign({}, extra, { bearerToken }): a new object is
\* handed on, extra is as it was
Ctx(extra, bearerToken) ==
    [handed |-> [extra EXCEPT !.bearerToken = bearerToken], after |-> extra]

\* if (bearerToken) extra.bearerToken = bearerToken, and extra itself is
\* handed to super.handleRequest; an extra without a sessionId stands for
\* the default {} of the parameter, which is no object of the caller
SubclassCtx(extra, bearerToken) ==
    LET assigned == IF Truthy(bearerToken)
                    THEN [extra EXCEPT !.bearerToken = bearerToken]
                    ELSE extra
    IN  [handed |-> assigned,
         after |-> IF extra.sessionId = Undefined THEN extra ELSE assigned]

BridgeHeaders == [authorization : ServerHeaderValues, Authorization : {Undefined}]

\* index.cjs: app.post('/') extracts the token and calls the patched
\* transport.handleRequest(req, res, req.body, { bearerToken }), which runs
\* up to its call of _origHandleRequest
PatchedHandleRequest ==
    /\ bridge = "patch"
    /\ BagCardinality(handling) < MaxHandling
    /\ \E headers \in BridgeHeaders, sessionId \in SessionIds :
          LET extra == Extra(ExtractToken(AuthHeader(headers)), sessionId, Undefined)
              bearerToken == BridgeToken(headers, extra.bearerToken)
              ctx == Ctx(extra, bearerToken)
          IN  /\ currentBearerToken' = SetSlot(currentBearerToken, bearerToken)
              /\ requestHandlers' = PatchToolsCall(requestHandlers, bearerToken)
              /\ handling' = handling (+) Handling(headers, ctx.handed)
              /\ toolEv' = [kind |-> "handleRequest", headers |-> headers,
                            extra |-> ctx.handed, passed |-> extra, after |-> ctx.after,
                            slot |-> currentBearerToken']
    /\ UNCHANGED bridge

\* BearerStreamableHTTPServerTransport.handleRequest(req, res, body, extra),
\* extra defaulting to {}, up to its call of super.handleRequest
BearerHandleRequest ==
    /\ bridge = "subclass"
    /\ BagCardinality(handling) < MaxHandling
    /\ \E headers \in BridgeHeaders, sessionId \in SessionIds :
          LET extra == Extra(Undefined, sessionId, Undefined)
              bearerToken == BridgeToken(headers, extra.bearerToken)
              ctx == SubclassCtx(extra, bearerToken)
          IN  /\ currentBearerToken' = SetSlot(currentBearerToken, bearerToken)
              /\ handling' = handling (+) Handling(headers, ctx.handed)
              /\ toolEv' = [kind |-> "handleRequest", headers |-> headers,
                            extra |-> ctx.handed, passed |-> extra, after |-> ctx.after,
                            slot |-> currentBearerToken']
    /\ UNCHANGED <<bridge, requestHandlers>>

\* the dispatcher, working on the tools/call message of a request it holds,
\* calls _requestHandlers['tools/call'](request, origExtra); the tool
\* handler gets the extra and can read the global slot
ToolsCall ==
    /\ \E r \in BagToSet(handling) :
          toolEv' = [kind |-> "toolsCall", headers |-> r.headers,
                     extra |-> MergedExtra(requestHandlers, OrigExtra),
                     passed |-> OrigExtra, after |-> OrigExtra,
                     slot |-> currentBearerToken]
    /\ UNCHANGED <<bridge, requestHandlers, currentBearerToken, handling>>

\* _origHandleRequest / super.handleRequest resolves
HandleRequestReturns ==
    /\ \E r \in BagToSet(handling) :
          /\ handling' = handling (-) SetToBag({r})
          /\ toolEv' = [kind |-> "returned", headers |-> r.headers,
                        extra |-> r.ctx, passed |-> r.ctx, after |-> r.ctx,
                        slot |-> currentBearerToken]
    /\ UNCHANGED <<bridge, requestHandlers, currentBearerToken>>

(***************************************************************************)
(* Startup of mcpServer() in index.mjs: the tools of toolsDir are loaded   *)
(* one by one, the dispatcher is connected, the HTTP server listens        *)
(***************************************************************************)

MaxFiles == 2

\* the listing of toolsDir; the files that passed the filter; the index of
\* the file the loop is at; the files whose entry point was called and has
\* not settled; let toolCount; the tools the dispatcher holds; the records
\* handed to log; the calls of entry points; where mcpServer() is; the file
\* whose mcpServer() runs
VARIABLES toolsDir, toolFiles, fileIdx, pending, toolCount, registeredTools,
          loadLog, invoked, loadPc, loader

loadVars == <<toolsDir, toolFiles, fileIdx, pending, toolCount, registeredTools,
              loadLog, invoked, loadPc, loader>>

\* the three files of the repository that define mcpServer()
Loaders == {"index.mjs", "index.cjs", "part_001"}

\* What a file of toolsDir is to the loader: its extension ("mjs" for the one
\* the loader filters on); whether its import or require throws; the entry
\* point of the module, which is a function itself ("bare"), has a function
\* as default export, or has none; the
\* tool that function registers through mcpServer.tool (the toolName it is
\* given, a name of its own that another plugin may use as well, or none);
\* whether it throws after that
FileKinds ==
    { [ext |-> "txt", import |-> "ok", entry |-> "none", tool |-> "none", throws |-> FALSE],
      [ext |-> "mjs", import |-> "throws", entry |-> "none", tool |-> "none", throws |-> FALSE],
      [ext |-> "mjs", import |-> "ok", entry |-> "none", tool |-> "none", throws |-> FALSE] }
    \cup [ext : {"mjs"}, import : {"ok"}, entry : {"default"},
          tool : {"own", "shared", "none"}, throws : BOOLEAN]
    \cup [ext : {"mjs"}, import : {"ok"}, entry : {"bare"},
          tool : {"own"}, throws : {FALSE}]

\* a directory of n files: file i is named by i
Listings(n) == [1..n -> FileKinds]

Named(listing) ==
    [readable |-> TRUE,
     files |-> [i \in 1..Len(listing) |-> [name |-> i, kind |-> listing[i]]]]

\* fs.readdirSync(toolsDir) throws
Unreadable == [readable |-> FALSE, files |-> <<>>]

ToolsDirs == {Unreadable} \cup UNION {{Named(l) : l \in Listings(n)} : n \in 0..MaxFiles}

\* the directories a loader can meet: import() of index.mjs yields a module
\* namespace, which is never a function
ToolsDirsOf ==
    [l \in Loaders |->
        IF l = "index.mjs"
        THEN {d \in ToolsDirs : \A i \in 1..Len(d.files) : d.files[i].kind.entry # "bare"}
        ELSE ToolsDirs]

\* the function the loader finds in a module: typeof mod === 'function'
\* (index.cjs only), then typeof mod.default === 'function'
EntryPoint(l, file) ==
    IF l = "index.cjs" /\ file.kind.entry = "bare" THEN "mod"
    ELSE IF file.kind.entry = "default" THEN "mod.default"
    ELSE "none"

NoToolName == <<"undefined", 0>>

\* the argument of the entry point: { mcpServer, toolName, log }, or the
\* dispatcher alone in part_001
EntryArgument(l, file, toolName) ==
    IF l = "part_001"
    THEN [file |-> file.name, toolName |-> NoToolName, mcpServer |-> "mcpServer",
          log |-> "undefined"]
    ELSE [file |-> file.name, toolName |-> toolName, mcpServer |-> "mcpServer",
          log |-> "log"]

\* .filter(f => f.endsWith('.mjs'))
EndsWithMjs(f) == f.kind.ext = "mjs"

\* file.replace(/\.mjs$/, '')
ToolNameOf(file) == <<"tool", file.name>>

\* the name a plugin hands to mcpServer.tool
RegisteredName(file) ==
    IF file.kind.tool = "own" THEN ToolNameOf(file) ELSE <<"shared">>

LogRecord(level, msg, about) == [level |-> level, msg |-> msg, about |-> about]

\* a dispatcher whose tool() takes a name it holds already, the later
\* handler replacing the earlier
Tool_Replaces(tools, name, file) ==
    [threw |-> FALSE,
     tools |-> {t \in tools : t.name # name} \cup {[name |-> name, by |-> file.name]}]

\* mcpServer.tool(name, ...): the dispatcher takes the handler under the
\* name, and throws when it holds a tool of that name already
Tool(tools, name, file) ==
    IF \E t \in tools : t.name = name
    THEN [threw |-> TRUE, tools |-> tools]
    ELSE [threw |-> FALSE, tools |-> tools \cup {[name |-> name, by |-> file.name]}]

\* a loop that does not wait for the entry point it called
Awaited_NotAtAll(waiting) == TRUE

\* await mod.default(...): the loop goes on when the call has settled
Awaited(waiting) == waiting = {}

\* a startup whose outer catch throws the error again
ReadToolsDir_Rethrows ==
    /\ loadPc = "readdir"
    /\ IF toolsDir = Unreadable
       THEN /\ loadLog' = Append(loadLog, LogRecord("error", "Error registering MCP tools:", 0))
            /\ loadPc' = "aborted"
            /\ UNCHANGED toolFiles
       ELSE /\ toolFiles' = SelectSeq(toolsDir.files, EndsWithMjs)
            /\ loadPc' = "loop"
            /\ UNCHANGED loadLog
    /\ UNCHANGED <<loader, toolsDir, fileIdx, pending, toolCount, registeredTools, invoked>>

\* const toolFiles = fs.readdirSync(toolsDir).filter(...), let toolCount = 0;
\* a throw goes to the outer catch, which logs it
ReadToolsDir ==
    /\ loadPc = "readdir"
    /\ IF toolsDir = Unreadable
       THEN /\ loadLog' = Append(loadLog, LogRecord("error", "Error registering MCP tools:", 0))
            /\ loadPc' = "connect"
            /\ UNCHANGED toolFiles
       ELSE /\ toolFiles' = SelectSeq(toolsDir.files, EndsWithMjs)
            /\ loadPc' = "loop"
            /\ UNCHANGED loadLog
    /\ UNCHANGED <<loader, toolsDir, fileIdx, pending, toolCount, registeredTools, invoked>>

\* one turn of for (const file of toolFiles) up to its await, or the end of
\* the loop
LoadNextTool ==
    /\ loadPc = "loop"
    /\ Awaited(pending)
    /\ IF fileIdx > Len(toolFiles)
       THEN /\ loadLog' = Append(loadLog, LogRecord("debug", "Registered tools", toolCount))
            /\ loadPc' = "connect"
            /\ UNCHANGED <<fileIdx, pending, invoked>>
       ELSE LET file == toolFiles[fileIdx]
            IN  /\ fileIdx' = fileIdx + 1
                /\ loadPc' = "loop"
                /\ IF file.kind.import = "throws"
                   THEN /\ loadLog' = Append(loadLog,
                               LogRecord("error", "Error registering MCP tool from", file.name))
                        /\ UNCHANGED <<pending, invoked>>
                   ELSE IF EntryPoint(loader, file) = "none"
                   THEN /\ loadLog' = Append(loadLog,
                               LogRecord("warn", "No default export function in", file.name))
                        /\ UNCHANGED <<pending, invoked>>
                   ELSE /\ invoked' = Append(invoked,
                               EntryArgument(loader, file, ToolNameOf(file)))
                        /\ pending' = pending \cup {file}
                        /\ UNCHANGED loadLog
    /\ UNCHANGED <<loader, toolsDir, toolFiles, toolCount, registeredTools>>

\* a loop without its inner try / catch: the error of an entry point goes to
\* the outer catch and ends the loop
ToolSettles_OuterCatch ==
    /\ \E file \in pending :
          LET reg == IF file.kind.tool = "none"
                     THEN [threw |-> FALSE, tools |-> registeredTools]
                     ELSE Tool(registeredTools, RegisteredName(file), file)
              failed == reg.threw \/ file.kind.throws
          IN  /\ registeredTools' = reg.tools
              /\ pending' = pending \ {file}
              /\ toolCount' = IF failed THEN toolCount ELSE toolCount + 1
              /\ loadPc' = IF failed THEN "connect" ELSE loadPc
              /\ loadLog' = Append(loadLog,
                     IF failed
                     THEN LogRecord("error", "Error registering MCP tools:", 0)
                     ELSE LogRecord("debug", "Registered MCP tool from", file.name))
    /\ UNCHANGED <<loader, toolsDir, toolFiles, fileIdx, invoked>>

\* a loop that counts an entry point when it calls it
ToolSettles_CountsCalls ==
    /\ \E file \in pending :
          LET reg == IF file.kind.tool = "none"
                     THEN [threw |-> FALSE, tools |-> registeredTools]
                     ELSE Tool(registeredTools, RegisteredName(file), file)
              failed == reg.threw \/ file.kind.throws
          IN  /\ registeredTools' = reg.tools
              /\ pending' = pending \ {file}
              /\ toolCount' = toolCount + 1
              /\ loadLog' = Append(loadLog,
                     IF failed
                     THEN LogRecord("error", "Error registering MCP tool from", file.name)
                     ELSE LogRecord("debug", "Registered MCP tool from", file.name))
    /\ UNCHANGED <<loader, toolsDir, toolFiles, fileIdx, invoked, loadPc>>

\* the entry point runs and its promise settles: it registers its tool, if
\* any, and returns or throws; the loop counts and logs it, or its catch
\* logs the error
ToolSettles ==
    /\ \E file \in pending :
          LET reg == IF file.kind.tool = "none"
                     THEN [threw |-> FALSE, tools |-> registeredTools]
                     ELSE Tool(registeredTools, RegisteredName(file), file)
              failed == reg.threw \/ file.kind.throws
          IN  /\ registeredTools' = reg.tools
              /\ pending' = pending \ {file}
              /\ toolCount' = IF failed THEN toolCount ELSE toolCount + 1
              /\ loadLog' = Append(loadLog,
                     IF failed
                     THEN LogRecord("error", "Error registering MCP tool from", file.name)
                     ELSE LogRecord("debug", "Registered MCP tool from", file.name))
    /\ UNCHANGED <<loader, toolsDir, toolFiles, fileIdx, invoked, loadPc>>

\* await mcpServer.connect(transport): its error is logged and thrown again
Connect ==
    /\ loadPc = "connect"
    /\ \E connected \in BOOLEAN :
          IF connected
          THEN /\ loadLog' = Append(loadLog, LogRecord("debug", "connected successfully", 0))
               /\ loadPc' = "listen"
          ELSE /\ loadLog' = Append(loadLog, LogRecord("error", "MCP Server connection error:", 0))
               /\ loadPc' = "aborted"
    /\ UNCHANGED <<loader, toolsDir, toolFiles, fileIdx, pending, toolCount, registeredTools, invoked>>

\* the express app is built and httpInstance.listen(port) called
Listen ==
    /\ loadPc = "listen"
    /\ loadPc' = "listening"
    /\ UNCHANGED <<loader, toolsDir, toolFiles, fileIdx, pending, toolCount, registeredTools,
                   loadLog, invoked>>

\* the requests the listening server is tried with: a GET / and the POST /
\* without a header, with the static token and with another token
FirstRequests ==
    {q \in Requests :
        /\ q.url = <<"/">> /\ q.body = "valid"
        /\ q.headers.authorization \in {Undefined, Bearer(<<"x">>), Bearer(<<"y">>)}
        /\ q.method = "GET" => q.headers.authorization = Undefined}

\* the listening server takes a request: the chain of the front end runs on
\* it, up to its response or to its hand-over to transport.handleRequest
ServeListening ==
    /\ loadPc = "listening"
    /\ \E q \in FirstRequests : ev' = EventOf(Chain(q, authToken, authCallback))
    /\ UNCHANGED <<authToken, authCallback, inflight>>
    /\ UNCHANGED <<loader, toolsDir, toolFiles, fileIdx, pending, toolCount, registeredTools,
                   loadLog, invoked, loadPc>>

(***************************************************************************)
(* The name and version of the server: the options of mcpServer() and      *)
(* package.json                                                            *)
(***************************************************************************)

\* the options name and version as the caller passed them; what reading and
\* parsing package.json gives; the parameters name and version of
\* mcpServer(), which the resolution assigns; where the resolution is
VARIABLES options, packageJson, name, version, resolvePc

resolveVars == <<options, packageJson, name, version, resolvePc>>

\* an option: left out, the empty string, or a value
OptionNames == {Undefined, <<>>, <<"CustomName">>}
OptionVersions == {Undefined, <<>>, <<"9.9.9">>}

\* fs.readFileSync or JSON.parse throws
NoPackageJson == [parsed |-> FALSE, name |-> Undefined, version |-> Undefined]

\* package.json parsed, each of its keys name and version missing, empty or
\* set
PackageJsons ==
    {NoPackageJson}
    \cup [parsed : {TRUE}, name : {Undefined, <<>>, <<"pkg-name">>},
          version : {Undefined, <<>>, <<"1.0.21">>}]

DefaultName == <<"@purinton/mcp-server">>
DefaultVersion == <<"1.0.0">>

\* the try of index.mjs:31-38: both assignments run when package.json was
\* parsed; the catch logs a warning and assigns nothing
ResolveNameVersion ==
    /\ resolvePc = "start"
    /\ IF packageJson.parsed
       THEN /\ name' = Or(Or(name, packageJson.name), DefaultName)
            /\ version' = Or(Or(version, packageJson.version), DefaultVersion)
       ELSE UNCHANGED <<name, version>>
    /\ resolvePc' = "done"
    /\ UNCHANGED <<options, packageJson>>

(***************************************************************************)
(* convertBigIntToString and buildResponse                                 *)
(***************************************************************************)

MaxWidth == 2

\* JavaScript values: a number, a BigInt, a string, an array (kids in index
\* order, the keys unused) or a plain object (kids the own enumerable
\* properties in insertion order)
Number(n) == [t |-> "number", n |-> n, s |-> <<>>, kids |-> <<>>]
BigInt(n) == [t |-> "bigint", n |-> n, s |-> <<>>, kids |-> <<>>]
String(s) == [t |-> "string", n |-> 0, s |-> s, kids |-> <<>>]
Array(kids) == [t |-> "array", n |-> 0, s |-> <<>>, kids |-> kids]
Object(kids) == [t |-> "object", n |-> 0, s |-> <<>>, kids |-> kids]

Element(v) == [k |-> "", v |-> v]
Property(k, v) == [k |-> k, v |-> v]

Digit(d) == <<"0", "1", "2", "3", "4", "5", "6", "7", "8", "9">>[d + 1]

\* BigInt.prototype.toString(): the decimal digits, a minus sign before them
RECURSIVE Decimal(_)
Decimal(n) ==
    IF n < 0 THEN <<"-">> \o Decimal(0 - n)
    ELSE IF n < 10 THEN <<Digit(n)>>
    ELSE Decimal(n \div 10) \o <<Digit(n % 10)>>

\* result[key] = v on the object literal result = {}: the key '__proto__' is
\* the accessor of Object.prototype, its setter makes no own property
AssignProperty(result, key, v) ==
    IF key = "__proto__" THEN result ELSE Append(result, Property(key, v))

RECURSIVE convertBigIntToString(_)
RECURSIVE ConvertProperties(_, _)

\* for (const key in value) if (hasOwnProperty.call(value, key))
\*     result[key] = convertBigIntToString(value[key])
ConvertProperties(kids, result) ==
    IF kids = <<>> THEN result
    ELSE ConvertProperties(Tail(kids),
             AssignProperty(result, Head(kids).k, convertBigIntToString(Head(kids).v)))

convertBigIntToString(value) ==
    IF value.t = "bigint" THEN String(Decimal(value.n))
    ELSE IF value.t = "array"
    THEN Array([i \in 1..Len(value.kids) |->
                   Element(convertBigIntToString(value.kids[i].v))])
    ELSE IF value.t = "object" THEN Object(ConvertProperties(value.kids, <<>>))
    ELSE value

\* JSON.stringify(value, null, 2), token by token without the white space
RECURSIVE JSONStringify(_)
RECURSIVE StringifyKids(_, _)
StringifyKids(kids, withKeys) ==
    IF kids = <<>> THEN <<>>
    ELSE (IF withKeys THEN <<Head(kids).k, ":">> ELSE <<>>)
         \o JSONStringify(Head(kids).v)
         \o (IF Len(kids) > 1 THEN <<",">> ELSE <<>>)
         \o StringifyKids(Tail(kids), withKeys)

JSONStringify(value) ==
    IF value.t = "number" THEN Decimal(value.n)
    ELSE IF value.t = "string" THEN <<"\"">> \o value.s \o <<"\"">>
    ELSE IF value.t = "array" THEN <<"[">> \o StringifyKids(value.kids, FALSE) \o <<"]">>
    ELSE IF value.t = "object" THEN <<"{">> \o StringifyKids(value.kids, TRUE) \o <<"}">>
    ELSE <<"TypeError">>

\* buildResponse(data): { content: [ { type: 'text', text } ] }
buildResponse(data) ==
    LET safeData == convertBigIntToString(data)
    IN  [content |-> <<[type |-> "text", text |-> JSONStringify(safeData)]>>]

\* the values the functions are applied to: leaves, arrays of up to MaxWidth
\* elements and objects over the keys a and __proto__, nested twice
Leaves == {Number(3), BigInt(12)}

\* the arrays of up to MaxWidth leaves, one position of which holds a value
\* of vs instead
ArraysOver(vs) ==
    {Array(<<>>)} \cup
    UNION {{Array([i \in 1..n |-> Element(IF i = p THEN v ELSE f[i])]) :
               f \in [1..n -> Leaves], p \in 1..n, v \in vs} : n \in 1..MaxWidth}

ObjectsOver(vs) ==
    {Object(<<>>)}
    \cup {Object(<<Property(k, v)>>) : k \in {"a", "__proto__"}, v \in vs}
    \cup {Object(<<Property("a", v), Property("b", w)>>) : v \in vs, w \in Leaves}

FlatValues == Leaves \cup ArraysOver(Leaves) \cup ObjectsOver(Leaves)

InputValues == FlatValues \cup ArraysOver(FlatValues) \cup ObjectsOver(FlatValues)

NoValue == String(<<>>)

NoResponse == [content |-> <<>>]

\* the argument; the value convertBigIntToString returned; the response
\* buildResponse returned; which of the two was called
VARIABLES cvInput, cvOutput, cvResponse, cvPc

convertVars == <<cvInput, cvOutput, cvResponse, cvPc>>

CallConvert ==
    /\ cvPc = "start"
    /\ cvOutput' = convertBigIntToString(cvInput)
    /\ cvPc' = "converted"
    /\ UNCHANGED <<cvInput, cvResponse>>

CallBuildResponse ==
    /\ cvPc = "start"
    /\ cvResponse' = buildResponse(cvInput)
    /\ cvPc' = "built"
    /\ UNCHANGED <<cvInput, cvOutput>>

(***************************************************************************)
(* The logger option (index.mjs, mcpServer: options destructuring)         *)
(***************************************************************************)

MaxServed == 3

\* the key under which the caller's options object carries its logger
\* instance: none, 'log' or 'logger' (the key McpServerOptions declares)
OptionKeys == {"none", "log", "logger"}

\* the requests served after startup: method and req.url
ServedRequests == {<<"GET", <<"/">>>>, <<"GET", <<"/", "x">>>>, <<"POST", <<"/">>>>}

\* the caller's options; the binding log of mcpServer ("caller" for the
\* caller's instance, "module" for the imported @purinton/log); the debug
\* calls each of the two has received; the requests served; the position
VARIABLES loggerKey, log, debugCalls, served, logPc

loggerVars == <<loggerKey, log, debugCalls, served, logPc>>

NoDebugCalls == [caller |-> <<>>, module |-> <<>>]

\* log.debug(msg)
Debug(calls, sink, msg) == [calls EXCEPT ![sink] = Append(@, msg)]

\* mcpServer({ log = logger, ... } = {}): only the key 'log' is bound
Destructure ==
    /\ logPc = "called"
    /\ log' = IF loggerKey = "log" THEN "caller" ELSE "module"
    /\ logPc' = "starting"
    /\ UNCHANGED <<loggerKey, debugCalls, served>>

\* the debug records of a startup: tools registered, connected, listening
Startup ==
    /\ logPc = "starting"
    /\ debugCalls' = Debug(Debug(Debug(debugCalls, log, <<"Registered tools">>),
                                 log, <<"connected">>), log, <<"listening">>)
    /\ logPc' = "serving"
    /\ UNCHANGED <<loggerKey, log, served>>

\* the two logging middlewares on one request: nothing for an exact GET /,
\* else one [HTTP] and one [HTTP RES] record
Serve ==
    /\ logPc = "serving"
    /\ Len(served) < MaxServed
    /\ \E q \in ServedRequests :
          /\ served' = Append(served, q)
          /\ debugCalls' =
                IF q[1] = "GET" /\ q[2] = <<"/">>
                THEN debugCalls
                ELSE Debug(Debug(debugCalls, log, <<"[HTTP]">> \o q),
                           log, <<"[HTTP RES]">> \o q)
    /\ UNCHANGED <<loggerKey, log, logPc>>

(***************************************************************************)
(* Properties of the credential extraction                                 *)
(***************************************************************************)

\* C9 (as claimed): the extracted credential is absent when the header is
\* missing, when its value does not start with 'Bearer ', or when nothing is
\* left of the token after trimming; otherwise it is the trimmed remainder.
C9_ExtractionAbsentOrTrimmed ==
    exPc = "done" =>
        LET h == exHeaders.authorization
            wrongScheme == Len(h) < Len(BearerPrefix)
                           \/ SubSeq(h, 1, Len(BearerPrefix)) # BearerPrefix
            rest == Trim(SubSeq(h, Len(BearerPrefix) + 1, Len(h)))
        IN  exToken = IF h = Undefined \/ wrongScheme \/ rest = <<>>
                      THEN Undefined
                      ELSE rest

(***************************************************************************)
(* Properties of the body capture                                          *)
(***************************************************************************)

\* C10: with the capture wrappers installed, the calls that reach the
\* original send, write and end, their arguments and order, and the bytes
\* that leave for the client are those of the same calls on a response
\* without the wrappers.
C10_CaptureTransparent ==
    /\ capWrapped.wire = capPlain.wire
    /\ capWrapped.sent = capPlain.sent
    /\ capWrapped.headersSent = capPlain.headersSent
    /\ capWrapped.finished = capPlain.finished
    /\ capWrapped.threw = capPlain.threw

\* all three primitives were called, the wrappers captured chunks and logged
C10_Witness ==
    /\ {capCalls[i] : i \in 1..Len(capCalls)} = {"send", "write", "end"}
    /\ Len(capWrapped.chunks) >= 2
    /\ capWrapped.logged # <<>>
    /\ capWrapped.sent # <<>>

\* C11 (as claimed): the body logged at the terminal end call of a wrapped
\* response, the concatenation of the captured chunks, is the bytes sent to
\* the client (both read as UTF-8 text, as the log line has them).
C11_LoggedIsSent ==
    capWrapped.logged # <<>> =>
        capWrapped.logged[1].body = Utf8Decode(capWrapped.sent)

\* C12 (as claimed): once the terminal end call of a wrapped response has
\* run, send, write and end of the response are the original primitives.
C12_WrappersRestored ==
    capWrapped.logged # <<>> =>
        /\ capWrapped.send = "orig"
        /\ capWrapped.write = "orig"
        /\ capWrapped.end = "orig"

(***************************************************************************)
(* Properties of the HTTP front end                                        *)
(***************************************************************************)

\* the last step was taken for a POST / whose body parsed
PostRootParsed == ev.c.method = "POST" /\ ev.c.url = <<"/">> /\ Parsed(ev.c.body)

\* the last step finished the response with res.status(code).json(obj), and
\* nothing else was written to it
Answered(code, obj) ==
    /\ ev.kind = "responded"
    /\ ev.c.res.statusCode = code
    /\ ev.c.jsons = <<obj>>
    /\ ev.c.res.finished
    /\ ~ev.c.res.threw

\* the last step handed the request to transport.handleRequest, the response
\* untouched
Forwarded ==
    /\ ev.kind = "dispatching"
    /\ ev.c.dispatched = 1
    /\ ev.c.jsons = <<>>
    /\ ev.c.res.wire = <<>>
    /\ ev.c.res.statusCode = 200
    /\ ~ev.c.res.headersSent

\* the Authorization header of the last step's request carries 'Bearer ' and tok
Presents(tok) == ev.c.headers.authorization = <<"B", "e", "a", "r", "e", "r", " ">> \o tok

PresentsBearer == \E tok \in {<<"x">>, <<"y">>} : Presents(tok)

\* C1: with a static token and no callback, a POST / whose body parsed is
\* answered 401 'Missing or invalid Authorization header' without a bearer
\* header, 401 'Invalid bearer token' with a token other than the static one,
\* and is forwarded to the dispatcher, the auth middleware writing nothing,
\* with the static token.
C1_StaticTokenTable ==
    (authToken = <<"x">> /\ ~authCallback /\ PostRootParsed
        /\ ev.kind \in {"responded", "awaiting", "dispatching"}) =>
        /\ ~PresentsBearer =>
              Answered(401, [error |-> "Missing or invalid Authorization header",
                             details |-> NoDetails])
        /\ Presents(<<"y">>) =>
              Answered(401, [error |-> "Invalid bearer token", details |-> NoDetails])
        /\ Presents(<<"x">>) => Forwarded
        /\ ev.kind = "responded" => ev.c.dispatched = 0

\* each row of the table has been taken, and a forwarded request has got the
\* dispatcher's status
C1_Witness ==
    /\ authToken = <<"x">> /\ ~authCallback /\ PostRootParsed
    /\ Presents(<<"x">>)
    /\ ev.kind = "dispatched"
    /\ ev.c.res.statusCode = 406

C1_WitnessDenied ==
    /\ authToken = <<"x">> /\ ~authCallback /\ PostRootParsed
    /\ Presents(<<"y">>)
    /\ ev.kind = "responded"
    /\ ev.c.res.statusCode = 401

\* C2: with neither static token nor callback, a POST / whose body parsed is
\* answered 500 whatever its Authorization header, and the dispatcher is not
\* invoked.
C2_UnconfiguredIs500 ==
    (authToken = Undefined /\ ~authCallback /\ PostRootParsed /\ ev.kind # "none") =>
        /\ Answered(500, [error |-> "MCP_TOKEN not set in environment",
                          details |-> NoDetails])
        /\ ev.c.dispatched = 0
        /\ ev.c.cbArgs = <<>>

\* a well-formed bearer header was answered 500
C2_Witness ==
    /\ authToken = Undefined /\ ~authCallback /\ PostRootParsed
    /\ Presents(<<"x">>)
    /\ ev.kind = "responded"
    /\ ev.c.res.statusCode = 500

\* C3: with a callback configured, a POST / whose body parsed is decided by
\* the callback's result alone, whatever the static token: the callback gets
\* the extracted token; a truthy result forwards the request, a falsy one
\* answers 401 'Invalid bearer token (authCallback)'.
C3_CallbackPrecedence ==
    (authCallback /\ PostRootParsed /\ ev.kind # "none") =>
        /\ ev.c.cbArgs = <<IF PresentsBearer
                           THEN SubSeq(ev.c.headers.authorization, 8, 8)
                           ELSE Undefined>>
        /\ ev.c.cbResult = "none" => ev.kind = "awaiting" /\ ev.c.res.wire = <<>>
        /\ (ev.c.cbResult = "truthy" /\ ev.kind \in {"responded", "dispatching"}) =>
              Forwarded
        /\ ev.c.cbResult = "falsy" =>
              Answered(401, [error |-> "Invalid bearer token (authCallback)",
                             details |-> NoDetails])

\* the callback let through a token that is not the static token
C3_Witness ==
    /\ authCallback /\ authToken = <<"x">> /\ PostRootParsed
    /\ Presents(<<"y">>)
    /\ ev.c.cbResult = "truthy"
    /\ ev.kind = "dispatching"

\* the callback turned down the static token itself
C3_WitnessDenied ==
    /\ authCallback /\ authToken = <<"x">> /\ PostRootParsed
    /\ Presents(<<"x">>)
    /\ ev.c.cbResult = "falsy"
    /\ ev.kind = "responded"

\* C4: when the callback throws or its promise rejects, the request is
\* answered 500 'Auth callback error' with details, not 401, and the
\* dispatcher is not invoked.
C4_CallbackThrowIs500 ==
    ev.c.cbResult = "throws" =>
        /\ ev.kind = "responded"
        /\ ev.c.res.statusCode = 500
        /\ ev.c.res.finished
        /\ Len(ev.c.jsons) = 1
        /\ ev.c.jsons[1].error = "Auth callback error"
        /\ ev.c.jsons[1].details # NoDetails
        /\ ev.c.dispatched = 0

C4_Witness ==
    /\ ev.c.cbResult = "throws"
    /\ ev.kind = "responded"
    /\ Presents(<<"x">>) /\ authToken = <<"x">>

\* C5: a POST / whose body fails to parse is answered 406 'Invalid JSON'
\* under every configuration and header, neither callback nor dispatcher
\* invoked; no such request is ever waiting in a handler.
C5_MalformedIs406 ==
    /\ (ev.c.method = "POST" /\ ev.c.url = <<"/">> /\ ev.c.body = "malformed") =>
          /\ Answered(406, [error |-> "Invalid JSON", details |-> NoDetails])
          /\ ev.c.cbArgs = <<>>
          /\ ev.c.dispatched = 0
    /\ \A r \in BagToSet(inflight) : Parsed(r.c.body)

\* with the static token presented and a callback configured as well
C5_Witness ==
    /\ ev.c.method = "POST" /\ ev.c.url = <<"/">> /\ ev.c.body = "malformed"
    /\ authToken = <<"x">> /\ authCallback
    /\ Presents(<<"x">>)
    /\ ev.kind = "responded"

\* C6 (as claimed): GET / is answered 200 with the fixed body under every
\* configuration, and invokes neither callback nor dispatcher.
C6_GetRootAlways200 ==
    (ev.c.method = "GET" /\ ev.c.url = <<"/">>) =>
        /\ ev.kind = "responded"
        /\ ev.c.res.statusCode = 200
        /\ ev.c.res.sent = <<"GET / endpoint - no action">>
        /\ ev.c.cbArgs = <<>>
        /\ ev.c.dispatched = 0

\* the contexts the server holds: that of the last step and those of the
\* requests waiting in a handler
Contexts == {ev.c} \union {r.c : r \in BagToSet(inflight)}

AuthErrors ==
    { "MCP_TOKEN not set in environment", "Missing or invalid Authorization header",
      "Invalid bearer token", "Invalid bearer token (authCallback)",
      "Auth callback error" }

EndCalls(res) == {i \in 1..Len(res.wire) : res.wire[i].op = "end"}

\* C7: once the auth middleware has answered a request 401 or 500, the chain
\* ends there: transport.handleRequest is not called for the request, the
\* request is in no handler, and its response is the one answer.
C7_RejectStopsChain ==
    \A c \in Contexts :
        (c.jsons # <<>> /\ c.jsons[1].error \in AuthErrors) =>
            /\ c.res.statusCode \in {401, 500}
            /\ c.dispatched = 0
            /\ Len(c.jsons) = 1
            /\ Cardinality(EndCalls(c.res)) = 1
            /\ c.res.finished /\ ~c.res.threw
            /\ \A r \in BagToSet(inflight) : r.c # c

\* a request was turned down while another one was with the dispatcher
C7_Witness ==
    /\ ev.kind = "responded"
    /\ ev.c.res.statusCode = 401
    /\ ev.c.jsons # <<>>
    /\ \E r \in BagToSet(inflight) : r.pc = "dispatch"

\* the dispatcher had sent the headers of the last step's response
DispatcherWrote == \E i \in 1..Len(ev.c.res.wire) : ev.c.res.wire[i].op = "write"

\* C13: an error thrown by transport.handleRequest is caught and logged; with
\* no headers sent the request is answered 500 'Internal MCP server error'
\* with details; with headers sent nothing more is written.  In neither case
\* is a response sent twice.
C13_DispatcherErrorCaught ==
    ev.kind = "failed" =>
        /\ ev.c.logs # <<>> /\ ev.c.logs[Len(ev.c.logs)].tag = "error"
        /\ ~ev.c.res.threw
        /\ IF DispatcherWrote
           THEN /\ ev.c.jsons = <<>>
                /\ ev.c.res.statusCode = 200
                /\ Len(ev.c.res.wire) = 1
                /\ ev.c.res.sent = <<"event">>
           ELSE /\ ev.c.jsons = <<[error |-> "Internal MCP server error",
                                   details |-> "err.stack"]>>
                /\ ev.c.res.statusCode = 500
                /\ ev.c.res.finished
                /\ Cardinality(EndCalls(ev.c.res)) = 1

\* the dispatcher threw after it had sent the headers and a chunk
C13_Witness ==
    /\ ev.kind = "failed"
    /\ DispatcherWrote
    /\ ev.c.res.headersSent

\* the dispatcher threw before it had written anything
C13_WitnessAnswered ==
    /\ ev.kind = "failed"
    /\ ~DispatcherWrote
    /\ ev.c.res.statusCode = 500

\* C20 (as claimed): an error response of the front end is a JSON object with
\* the key error, and with the key details as well when its status is 5xx.
C20_ErrorPayloadShape ==
    \A i \in 1..Len(ev.c.jsons) :
        /\ ev.c.jsons[i].error \in
              AuthErrors \cup {"Invalid JSON", "Internal MCP server error"}
        /\ ev.c.res.statusCode >= 500 => ev.c.jsons[i].details # NoDetails

\* C26 (as claimed): every request handed to transport.handleRequest by the
\* route app.post('/') went through the authorization check and was allowed.
C26_NoDispatchWithoutAuth ==
    \A c \in Contexts : c.dispatched > 0 => c.decision = "allowed"

\* the token a request carries: what follows 'Bearer ', or none
CarriedToken(c) ==
    IF c.headers.authorization = <<"B", "e", "a", "r", "e", "r", " ", "x">> THEN <<"x">>
    ELSE IF c.headers.authorization = <<"B", "e", "a", "r", "e", "r", " ", "y">> THEN <<"y">>
    ELSE <<"undefined">>

\* C27: with a callback configured, every POST with the URL '/' whose body
\* parsed has had the callback called exactly once, with the token it
\* carries, undefined without a bearer header; until the callback settles
\* such a request is neither answered nor forwarded, and a truthy result lets
\* it through even without a token.  The callback is never called for a
\* GET / nor for a request whose body did not parse, nor when none is
\* configured.
C27_CallbackOncePerRequest ==
    \A c \in Contexts :
        /\ (authCallback /\ c.method = "POST" /\ c.url = <<"/">> /\ Parsed(c.body)) =>
              /\ c.cbArgs = <<CarriedToken(c)>>
              /\ c.cbResult = "none" =>
                    c.decision = "none" /\ c.res.wire = <<>> /\ c.dispatched = 0
              /\ c.cbResult = "truthy" => c.decision = "allowed" /\ c.dispatched = 1
        /\ (~authCallback \/ c.method = "GET" \/ ~Parsed(c.body)) => c.cbArgs = <<>>

\* a request without an Authorization header that the callback let through
C27_Witness ==
    /\ authCallback
    /\ ev.kind = "dispatching"
    /\ ev.c.headers.authorization = <<"undefined">>
    /\ ev.c.cbArgs = <<(<<"undefined">>)>>
    /\ ev.c.cbResult = "truthy"

\* whoever is suspended, a further request can be taken while the server has
\* room for one, a request that waits for the auth callback can be resumed,
\* and a request with the dispatcher can be answered or fail
SuspendedHoldNobodyUp ==
    /\ BagCardinality(inflight) < MaxInFlight => ENABLED Receive
    /\ (\E r \in BagToSet(inflight) : r.pc = "awaitAuth") => ENABLED AuthCallbackSettles
    /\ (\E r \in BagToSet(inflight) : r.pc = "dispatch") =>
          ENABLED DispatcherEnds /\ ENABLED DispatcherThrows

\* a step of the server adds, drops or moves on one request and leaves the
\* other suspended ones as they are
StepLeavesOthersAlone ==
    /\ BagCardinality(inflight (-) inflight') <= 1
    /\ BagCardinality(inflight' (-) inflight) <= 1
    /\ \A r \in BagToSet(inflight) :
          CopiesIn(r, inflight') >= CopiesIn(r, inflight) - 1

\* C33: while requests are suspended at the auth callback or at the
\* dispatcher, the server takes further requests and carries each one on by
\* itself: no step waits for a suspended request, and no step touches a
\* suspended request other than the one it is about.
C33_SuspendedDoesNotBlock ==
    []SuspendedHoldNobodyUp /\ [][StepLeavesOthersAlone]_serverVars

\* a request still waits for the auth callback while another one has been
\* let through by it, dispatched and answered
C33_Witness ==
    /\ \E r \in BagToSet(inflight) : r.pc = "awaitAuth" /\ r.c.cbResult = "none"
    /\ ev.kind = "dispatched"
    /\ ev.c.cbResult = "truthy"
    /\ ev.c.res.finished

\* the request of the last step is a POST with the URL '/' whose body parsed
ParsedPostRoot == ev.c.method = "POST" /\ ev.c.url = <<"/">> /\ Parsed(ev.c.body)

\* the auth middleware turned the request down: its 401 or 500 is out
Rejected ==
    /\ ev.kind = "responded"
    /\ ev.c.decision \notin {"none", "allowed"}
    /\ ev.c.res.statusCode = AuthStatus(ev.c.decision)
    /\ ev.c.jsons = <<AuthErrorObject(ev.c.decision)>>
    /\ ev.c.res.finished

\* the auth middleware let the request through to transport.handleRequest
HandedOver ==
    /\ ev.kind = "dispatching"
    /\ ev.c.decision = "allowed"
    /\ ev.c.dispatched = 1

\* the dispatcher finished the response
Completed == ev.kind = "dispatched" /\ ev.c.res.finished

\* the dispatcher threw: the 500 is out, unless the headers had been sent
Failed ==
    /\ ev.kind = "failed"
    /\ DispatcherWrote \/ (ev.c.res.statusCode = 500 /\ ev.c.res.finished)

\* C34: a parsed POST / that waits for the auth callback is in the end
\* turned down with its 401 or 500 or handed to the dispatcher; one that is
\* with the dispatcher is in the end answered by it, or by the 500 of the
\* catch when the dispatcher throws before the headers are sent; every parsed
\* POST / leaves the chain, none stays in a handler for ever.
C34_EveryRequestAnswered ==
    /\ (ParsedPostRoot /\ ev.kind = "awaiting") ~> (Rejected \/ HandedOver)
    /\ (ParsedPostRoot /\ ev.kind \in {"dispatching", "wrote"}) ~> (Completed \/ Failed)
    /\ [](ParsedPostRoot =>
            <>(inflight = EmptyBag /\ (Rejected \/ Completed \/ Failed)))

\* the callback threw and the request was answered 500
C34_Witness ==
    /\ ParsedPostRoot
    /\ ev.c.cbResult = "throws"
    /\ Rejected
    /\ ev.c.res.statusCode = 500
    /\ inflight = EmptyBag

(***************************************************************************)
(* Properties of the startup                                               *)
(***************************************************************************)

\* the loop over the files is over
LoopDone == loadPc \in {"connect", "listen", "listening", "aborted"}

\* the calls of the entry point of the file named i
CallsOf(i) == {j \in 1..Len(invoked) : invoked[j].file = i}

\* the records of the log about the file named i, at a level
RecordsOf(level, i) ==
    {j \in 1..Len(loadLog) : loadLog[j].level = level /\ loadLog[j].about = i
                             /\ loadLog[j].msg # "Registered tools"}

\* C14: whichever files throw at import or in their entry point, every file
\* that imports and has an entry point the loader looks for is called, once, and the
\* startup goes on: it stops only after listen(), or at a failed connect.
C14_FailureIsolation ==
    /\ (LoopDone /\ toolsDir.readable) =>
          \A i \in 1..Len(toolsDir.files) :
              LET k == toolsDir.files[i].kind
              IN  Cardinality(CallsOf(i)) =
                      IF /\ k.ext = "mjs" /\ k.import = "ok"
                         /\ k.entry = "default" \/ (k.entry = "bare" /\ loader = "index.cjs")
                      THEN 1 ELSE 0
    /\ loadPc \in {"readdir", "loop", "connect", "listen"} =>
          ENABLED (ReadToolsDir \/ LoadNextTool \/ ToolSettles \/ Connect \/ Listen)
    /\ loadPc = "aborted" =>
          loadLog[Len(loadLog)].msg = "MCP Server connection error:"

\* the server listens after a first plugin that threw in its entry point and
\* a second one that registered its tool
C14_Witness ==
    /\ loadPc = "listening"
    /\ Len(toolsDir.files) >= 2
    /\ toolsDir.files[1].kind.throws
    /\ RecordsOf("error", 1) # {}
    /\ CallsOf(2) # {}
    /\ \E t \in registeredTools : t.by = 2

\* file i of the directory is a plugin whose entry point is called
Callable(i) ==
    LET k == toolsDir.files[i].kind
    IN  /\ k.ext = "mjs" /\ k.import = "ok"
        /\ k.entry = "default" \/ (k.entry = "bare" /\ loader = "index.cjs")

\* the entry point of file i returns: it does not throw of itself, and the
\* name it registers, if it is the shared one, was not taken by a file before
ReturnsNormally(i) ==
    /\ Callable(i)
    /\ ~toolsDir.files[i].kind.throws
    /\ toolsDir.files[i].kind.tool = "shared" =>
          ~\E j \in 1..(i - 1) : Callable(j) /\ toolsDir.files[j].kind.tool = "shared"

\* C15: when the loop is over, toolCount, which the loop logs, is the number
\* of files whose entry point was called and returned without throwing.
C15_CountIsSuccesses ==
    (LoopDone /\ toolsDir.readable) =>
        LET n == Cardinality({i \in 1..Len(toolsDir.files) : ReturnsNormally(i)})
        IN  /\ toolCount = n
            /\ \E j \in 1..Len(loadLog) :
                  loadLog[j] = [level |-> "debug", msg |-> "Registered tools", about |-> n]

\* of two entry points called, one returned and one threw
C15_Witness ==
    /\ LoopDone
    /\ Len(invoked) = 2
    /\ toolCount = 1
    /\ \E i \in 1..2 : toolsDir.files[i].kind.throws

\* file i registers the shared name after a file before it did
Duplicate(i) ==
    /\ Callable(i)
    /\ toolsDir.files[i].kind.tool = "shared"
    /\ \E j \in 1..(i - 1) : Callable(j) /\ toolsDir.files[j].kind.tool = "shared"

NothingRegistered ==
    (loadPc = "listen" \/ loadPc = "listening") =>
        /\ registeredTools' = registeredTools
        /\ invoked' = invoked
        /\ toolCount' = toolCount

\* C17: the entry points run one at a time, each settled before the next
\* file is loaded; all have settled and the loop is over when connect and
\* listen() are called; once the server listens no entry point is called and
\* no tool registered.
C17_RegistrationBeforeServing ==
    /\ [](/\ Cardinality(pending) <= 1
          /\ pending # {} =>
                /\ loadPc = "loop"
                /\ \A file \in pending : file = toolFiles[fileIdx - 1]
                /\ invoked[Len(invoked)].file = toolFiles[fileIdx - 1].name
          /\ (LoopDone /\ toolsDir.readable) =>
                pending = {} /\ fileIdx = Len(toolFiles) + 1)
    /\ [][NothingRegistered]_loadVars

\* the server listens with the tools of two plugins registered
C17_Witness ==
    /\ loadPc = "listening"
    /\ Len(invoked) = 2
    /\ Cardinality(registeredTools) = 2
    /\ pending = {}

\* ---- entry points ----

\* C25 (as claimed): a plugin that is a function itself, or has a function as
\* default export, is called exactly once with { mcpServer, toolName, log },
\* toolName the file name without its extension and so different for
\* different files; a plugin with neither is not called, is reported by a
\* warning and is not counted.
C25_EntryPointResolution ==
    (LoopDone /\ toolsDir.readable) =>
        \A i \in 1..Len(toolsDir.files) :
            LET k == toolsDir.files[i].kind
            IN  (k.ext = "mjs" /\ k.import = "ok") =>
                    IF k.entry \in {"bare", "default"}
                    THEN /\ Cardinality(CallsOf(i)) = 1
                         /\ \A j \in CallsOf(i) :
                               /\ invoked[j].mcpServer = "mcpServer"
                               /\ invoked[j].toolName = <<"tool", i>>
                               /\ invoked[j].log = "log"
                         /\ \A j \in 1..Len(invoked) :
                               invoked[j].file # i => invoked[j].toolName # <<"tool", i>>
                    ELSE /\ CallsOf(i) = {}
                         /\ Cardinality(RecordsOf("warn", i)) = 1
                         /\ RecordsOf("debug", i) = {}

\* ---- an unreadable tools directory ----

\* C31: when fs.readdirSync(toolsDir) throws, the error is logged, no entry
\* point is called, no tool is registered and nothing is counted; the startup
\* goes on to connect and listen and stops only at a failed connect; the
\* listening server answers GET / with 200 and gives POST / the answers of
\* the static token: 500 with no token configured, 401 without a bearer
\* header or with another token, the dispatcher with the static token.
C31_UnreadableToolsDir ==
    ~toolsDir.readable =>
        /\ loadPc # "readdir" =>
              loadLog[1] = [level |-> "error", msg |-> "Error registering MCP tools:",
                            about |-> 0]
        /\ registeredTools = {} /\ invoked = <<>> /\ toolCount = 0 /\ pending = {}
        /\ loadPc \in {"readdir", "connect", "listen", "listening", "aborted"}
        /\ loadPc \in {"readdir", "connect", "listen"} =>
              ENABLED (ReadToolsDir \/ Connect \/ Listen)
        /\ loadPc = "aborted" =>
              loadLog[Len(loadLog)].msg = "MCP Server connection error:"
        /\ loadPc = "listening" => ENABLED ServeListening
        /\ ev.kind # "none" =>
              /\ loadPc = "listening"
              /\ ev.c.method = "GET" =>
                    /\ ev.kind = "responded"
                    /\ ev.c.res.statusCode = 200 /\ ev.c.res.finished
              /\ ev.c.method = "POST" =>
                    IF authToken = <<"undefined">>
                    THEN Answered(500, [error |-> "MCP_TOKEN not set in environment",
                                        details |-> NoDetails])
                    ELSE IF Presents(authToken) THEN Forwarded
                    ELSE IF PresentsBearer
                    THEN Answered(401, [error |-> "Invalid bearer token",
                                        details |-> NoDetails])
                    ELSE Answered(401, [error |-> "Missing or invalid Authorization header",
                                        details |-> NoDetails])

\* the server listens after the directory could not be read, and hands a
\* POST / with the static token to the dispatcher
C31_Witness ==
    /\ ~toolsDir.readable
    /\ loadPc = "listening"
    /\ Len(loadLog) = 2
    /\ authToken = <<"x">>
    /\ ev.kind = "dispatching"

\* ---- a plugin that fails after it registered ----

\* C32 (as claimed): when the loop is over, every tool the dispatcher holds
\* was registered by a plugin that was counted, a plugin that threw after
\* registering having left nothing.
C32_FailureIsAtomic ==
    LoopDone =>
        \A t \in registeredTools :
            \E j \in 1..Len(loadLog) :
                loadLog[j] = [level |-> "debug", msg |-> "Registered MCP tool from",
                              about |-> t.by]

(***************************************************************************)
(* Properties of the bearer token bridge                                   *)
(***************************************************************************)

\* C8 (as claimed): the bearerToken a tool handler gets in its extra, for a
\* tools/call of request R through the patched entry, is the token of R's own
\* Authorization header, not that of another request.
C8_NoTokenLeak ==
    (toolEv.kind = "toolsCall" /\ requestHandlers.bearerPatch) =>
        LET h == toolEv.headers.authorization
        IN  toolEv.extra.bearerToken =
                IF Len(h) >= 7 /\ SubSeq(h, 1, 7) = <<"B", "e", "a", "r", "e", "r", " ">>
                THEN SubSeq(h, 8, Len(h))
                ELSE Undefined

\* the credential of a request of the bridge, from its Authorization header
CredentialOf(headers) ==
    LET h == headers.authorization
    IN  IF Len(h) >= 7 /\ SubSeq(h, 1, 7) = <<"B", "e", "a", "r", "e", "r", " ">>
        THEN SubSeq(h, 8, Len(h))
        ELSE Undefined

\* C18 (as claimed): when a request has passed through handleRequest, the
\* slot global.__currentBearerToken__ holds the credential extracted for that
\* request, be its header a bearer header, another one or absent.
C18_SlotIsLastExtracted ==
    toolEv.kind = "handleRequest" =>
        /\ toolEv.slot = CredentialOf(toolEv.headers)
        /\ currentBearerToken = toolEv.slot

\* C19: the slot is shared by the requests in flight and the last token
\* written wins: a request with a token overwrites it whatever requests are
\* with the dispatcher, and a tool handler reads that one slot, so that the
\* handler of one request can read the token of another (the witness).
C19_SlotIsShared ==
    /\ (toolEv.kind = "handleRequest" /\ CredentialOf(toolEv.headers) # Undefined) =>
          currentBearerToken = CredentialOf(toolEv.headers)
    /\ toolEv.kind = "toolsCall" => toolEv.slot = currentBearerToken

\* two requests with different tokens are in flight, and the tool handler of
\* one reads the other's token from the slot
C19_Witness ==
    /\ toolEv.kind = "toolsCall"
    /\ CredentialOf(toolEv.headers) = <<"x">>
    /\ toolEv.slot = <<"y">>
    /\ \E r1, r2 \in BagToSet(handling) :
          /\ r1.headers = toolEv.headers
          /\ CredentialOf(r2.headers) = <<"y">>

(***************************************************************************)
(* Properties of the name and version                                      *)
(***************************************************************************)

\* C21 (as claimed): the name and the version the server runs with are the
\* caller's option if given, else the value of package.json, else the
\* default; both are defined, also when package.json cannot be read.
C21_NameVersionResolved ==
    resolvePc = "done" =>
        /\ name = IF options.name \notin {Undefined, <<>>} THEN options.name
                  ELSE IF packageJson.parsed /\ packageJson.name \notin {Undefined, <<>>}
                       THEN packageJson.name
                  ELSE <<"@purinton/mcp-server">>
        /\ version = IF options.version \notin {Undefined, <<>>} THEN options.version
                     ELSE IF packageJson.parsed /\ packageJson.version \notin {Undefined, <<>>}
                          THEN packageJson.version
                     ELSE <<"1.0.0">>
        /\ name # Undefined /\ version # Undefined

\* C29 (as claimed): the context a bridge hands on, the ctx of handleRequest
\* and the mergedExtra of tools/call, has every key of the extra it was
\* called with, bearerToken apart, with that extra's value, and the extra
\* object it was called with is afterwards as it was.
C29_MergeNonDestructive ==
    toolEv.kind \in {"handleRequest", "toolsCall"} =>
        /\ toolEv.extra.sessionId = toolEv.passed.sessionId
        /\ toolEv.extra.requestId = toolEv.passed.requestId
        /\ toolEv.after = toolEv.passed

\* C30: however many requests the patched handleRequest has served, the
\* entry 'tools/call' is the registered handler (depth 0) or one closure
\* around it (depth 1), the closure being the one marked __bearerPatch; a
\* call of the entry so reaches the registered handler once.
C30_PatchedAtMostOnce ==
    /\ requestHandlers.depth <= 1
    /\ requestHandlers.bearerPatch <=> requestHandlers.depth = 1
    /\ requestHandlers.depth = 1 => requestHandlers.present /\ bridge = "patch"

\* a second request is with the patched handleRequest, the entry wrapped once
C30_Witness ==
    /\ bridge = "patch"
    /\ toolEv.kind = "handleRequest"
    /\ BagCardinality(handling) = 2
    /\ requestHandlers.depth = 1

(***************************************************************************)
(* Properties of the request and response logs                             *)
(***************************************************************************)

HttpRecords(c) == {i \in 1..Len(c.logs) : c.logs[i].tag = "HTTP"}

\* the request of a context with a body that serializes, run down the chain
SerializableTwin(c) ==
    Chain([method |-> c.method, url |-> c.url, body |-> "valid", headers |-> c.headers],
          authToken, authCallback)

\* C24: every request whose body parsed, an exact GET / apart, has exactly one
\* request log record, the first record of the request, so written before the
\* auth middleware ran and there whatever that decided; it carries the
\* serialized body, or '[unserializable body]' when JSON.stringify threw, and
\* such a request then goes down the chain as the same request with a
\* serializable body does.
C24_RequestLoggedBeforeAuth ==
    /\ \A c \in Contexts :
          (Parsed(c.body) /\ ~(c.method = "GET" /\ c.url = <<"/">>)) =>
              /\ Cardinality(HttpRecords(c)) = 1
              /\ c.logs[1] = [tag |-> "HTTP", method |-> c.method, url |-> c.url,
                              body |-> IF c.body = "deep"
                                       THEN <<"[unserializable body]">>
                                       ELSE <<"{", "jsonrpc", "}">>]
    /\ (ev.kind \in {"responded", "awaiting", "dispatching"}
            /\ ev.c.body = "deep" /\ ev.c.cbResult = "none") =>
          /\ ev.kind = EventOf(SerializableTwin(ev.c)).kind
          /\ [ev.c EXCEPT !.body = "valid", !.logs = <<>>]
                = [SerializableTwin(ev.c).c EXCEPT !.logs = <<>>]

\* a request with an unserializable body, logged and then rejected
C24_Witness ==
    /\ ev.kind = "responded"
    /\ ev.c.method = "POST" /\ ev.c.url = <<"/">> /\ ev.c.body = "deep"
    /\ ev.c.res.statusCode = 500
    /\ ev.c.logs[1].body = <<"[unserializable body]">>

\* C28: a request whose body parsed, an exact GET / apart, has no response
\* log record until its response is ended and exactly one from then on,
\* written by the end call, with the request's method and URL and the status
\* code of the response; so have the 401 and 500 answers of the auth
\* middleware.
C28_ResponseLoggedOnce ==
    \A c \in Contexts :
        (Parsed(c.body) /\ ~(c.method = "GET" /\ c.url = <<"/">>)) =>
            /\ Len(c.res.logged) = IF c.res.finished THEN 1 ELSE 0
            /\ c.res.finished =>
                  /\ c.res.logged[1].method = c.method
                  /\ c.res.logged[1].url = c.url
                  /\ c.res.logged[1].status = c.res.statusCode
            /\ (c.jsons # <<>> /\ c.jsons[1].error \in AuthErrors) =>
                  /\ Len(c.res.logged) = 1
                  /\ c.res.logged[1].status \in {401, 500}

\* a request the auth middleware turned down, with its record
C28_Witness ==
    /\ ev.kind = "responded"
    /\ ev.c.jsons # <<>> /\ ev.c.jsons[1].error = "Invalid bearer token"
    /\ Len(ev.c.res.logged) = 1
    /\ ev.c.res.logged[1].status = 401

(***************************************************************************)
(* Properties of convertBigIntToString                                     *)
(***************************************************************************)

\* the value with every BigInt replaced by its decimal string (12n is the
\* only BigInt of the inputs) and all else as it is
RECURSIVE Rendered(_)
Rendered(v) ==
    IF v.t = "bigint" THEN [v EXCEPT !.t = "string", !.n = 0, !.s = <<"1", "2">>]
    ELSE [v EXCEPT !.kids = [i \in 1..Len(v.kids) |->
                                [k |-> v.kids[i].k, v |-> Rendered(v.kids[i].v)]]]

\* C22 (as claimed): convertBigIntToString returns its argument with every
\* BigInt, at any depth, as its decimal string, and every other leaf, every
\* key and every array position as it was.
C22_BigIntsRendered ==
    cvPc = "converted" => cvOutput = Rendered(cvInput)

(***************************************************************************)
(* Properties of the logger option                                         *)
(***************************************************************************)

ServedGetRoot == \E i \in 1..Len(served) : served[i] = <<"GET", <<"/">>>>

\* C23 (as claimed): after a startup with the caller's instance under the
\* option 'logger' and one served GET /, the debug method of that instance
\* has been called at least once.
C23_CallerLoggerReceives ==
    (loggerKey = "logger" /\ logPc = "serving" /\ ServedGetRoot)
        => Len(debugCalls.caller) >= 1

(***************************************************************************)
(* Specifications                                                          *)
(***************************************************************************)

vars == <<extractVars, captureVars, serverVars, bridgeVars, loadVars, resolveVars, convertVars, loggerVars>>

\* the credential extraction, on every header value of HeaderObjects
InitExtract ==
    /\ exHeaders \in HeaderObjects
    /\ exToken = Undefined
    /\ exPc = "start"
    /\ capWrapped = NewResponse
    /\ capPlain = NewResponse
    /\ capCalls = <<>>
    /\ authToken = Undefined
    /\ authCallback = FALSE
    /\ inflight = EmptyBag
    /\ ev = NoEvent
    /\ bridge = "patch"
    /\ requestHandlers = NoToolsCall
    /\ currentBearerToken = Undefined
    /\ handling = EmptyBag
    /\ toolEv = NoToolEvent
    /\ toolsDir = Unreadable
    /\ toolFiles = <<>>
    /\ fileIdx = 1
    /\ pending = {}
    /\ toolCount = 0
    /\ registeredTools = {}
    /\ loadLog = <<>>
    /\ invoked = <<>>
    /\ loadPc = "off"
    /\ loader = "index.mjs"
    /\ options = [name |-> Undefined, version |-> Undefined]
    /\ packageJson = NoPackageJson
    /\ name = Undefined
    /\ version = Undefined
    /\ resolvePc = "idle"
    /\ cvInput = NoValue
    /\ cvOutput = NoValue
    /\ cvResponse = NoResponse
    /\ cvPc = "idle"
    /\ loggerKey = "none"
    /\ log = "module"
    /\ debugCalls = NoDebugCalls
    /\ served = <<>>
    /\ logPc = "idle"

ExtractNext == Extract /\ UNCHANGED <<captureVars, serverVars, bridgeVars, loadVars, resolveVars, convertVars, loggerVars>>

SpecExtract == InitExtract /\ [][ExtractNext]_vars

\* a response past the response logging middleware, beside a bare one
InitCapture ==
    /\ capWrapped = InstallCapture(NewResponse, "POST", <<"/">>)
    /\ capPlain = NewResponse
    /\ capCalls = <<>>
    /\ exHeaders = NoHeaders
    /\ exToken = Undefined
    /\ exPc = "idle"
    /\ authToken = Undefined
    /\ authCallback = FALSE
    /\ inflight = EmptyBag
    /\ ev = NoEvent
    /\ bridge = "patch"
    /\ requestHandlers = NoToolsCall
    /\ currentBearerToken = Undefined
    /\ handling = EmptyBag
    /\ toolEv = NoToolEvent
    /\ toolsDir = Unreadable
    /\ toolFiles = <<>>
    /\ fileIdx = 1
    /\ pending = {}
    /\ toolCount = 0
    /\ registeredTools = {}
    /\ loadLog = <<>>
    /\ invoked = <<>>
    /\ loadPc = "off"
    /\ loader = "index.mjs"
    /\ options = [name |-> Undefined, version |-> Undefined]
    /\ packageJson = NoPackageJson
    /\ name = Undefined
    /\ version = Undefined
    /\ resolvePc = "idle"
    /\ cvInput = NoValue
    /\ cvOutput = NoValue
    /\ cvResponse = NoResponse
    /\ cvPc = "idle"
    /\ loggerKey = "none"
    /\ log = "module"
    /\ debugCalls = NoDebugCalls
    /\ served = <<>>
    /\ logPc = "idle"

CaptureNext ==
    \/ CaptureSend /\ UNCHANGED <<extractVars, serverVars, bridgeVars, loadVars, resolveVars, convertVars, loggerVars>>
    \/ CaptureWrite /\ UNCHANGED <<extractVars, serverVars, bridgeVars, loadVars, resolveVars, convertVars, loggerVars>>
    \/ CaptureEnd /\ UNCHANGED <<extractVars, serverVars, bridgeVars, loadVars, resolveVars, convertVars, loggerVars>>

SpecCapture == InitCapture /\ [][CaptureNext]_vars

\* the server of index.mjs, listening, under each configuration of authToken
\* and authCallback
Init ==
    /\ authToken \in AuthTokens
    /\ authCallback \in BOOLEAN
    /\ inflight = EmptyBag
    /\ ev = NoEvent
    /\ exHeaders = NoHeaders
    /\ exToken = Undefined
    /\ exPc = "idle"
    /\ capWrapped = NewResponse
    /\ capPlain = NewResponse
    /\ capCalls = <<>>
    /\ bridge = "patch"
    /\ requestHandlers = NoToolsCall
    /\ currentBearerToken = Undefined
    /\ handling = EmptyBag
    /\ toolEv = NoToolEvent
    /\ toolsDir = Unreadable
    /\ toolFiles = <<>>
    /\ fileIdx = 1
    /\ pending = {}
    /\ toolCount = 0
    /\ registeredTools = {}
    /\ loadLog = <<>>
    /\ invoked = <<>>
    /\ loadPc = "off"
    /\ loader = "index.mjs"
    /\ options = [name |-> Undefined, version |-> Undefined]
    /\ packageJson = NoPackageJson
    /\ name = Undefined
    /\ version = Undefined
    /\ resolvePc = "idle"
    /\ cvInput = NoValue
    /\ cvOutput = NoValue
    /\ cvResponse = NoResponse
    /\ cvPc = "idle"
    /\ loggerKey = "none"
    /\ log = "module"
    /\ debugCalls = NoDebugCalls
    /\ served = <<>>
    /\ logPc = "idle"

Next ==
    \/ Receive /\ UNCHANGED <<extractVars, captureVars, bridgeVars, loadVars, resolveVars, convertVars, loggerVars>>
    \/ AuthCallbackSettles /\ UNCHANGED <<extractVars, captureVars, bridgeVars, loadVars, resolveVars, convertVars, loggerVars>>
    \/ DispatcherWrites /\ UNCHANGED <<extractVars, captureVars, bridgeVars, loadVars, resolveVars, convertVars, loggerVars>>
    \/ DispatcherEnds /\ UNCHANGED <<extractVars, captureVars, bridgeVars, loadVars, resolveVars, convertVars, loggerVars>>
    \/ DispatcherThrows /\ UNCHANGED <<extractVars, captureVars, bridgeVars, loadVars, resolveVars, convertVars, loggerVars>>

Spec == Init /\ [][Next]_vars

\* the bridge, of either kind, over a registry with or without an entry
\* 'tools/call'
InitBridge ==
    /\ bridge \in Bridges
    /\ requestHandlers \in {NoToolsCall, CallToolHandler}
    /\ currentBearerToken = Undefined
    /\ handling = EmptyBag
    /\ toolEv = NoToolEvent
    /\ authToken = Undefined
    /\ authCallback = FALSE
    /\ inflight = EmptyBag
    /\ ev = NoEvent
    /\ exHeaders = NoHeaders
    /\ exToken = Undefined
    /\ exPc = "idle"
    /\ capWrapped = NewResponse
    /\ capPlain = NewResponse
    /\ capCalls = <<>>
    /\ toolsDir = Unreadable
    /\ toolFiles = <<>>
    /\ fileIdx = 1
    /\ pending = {}
    /\ toolCount = 0
    /\ registeredTools = {}
    /\ loadLog = <<>>
    /\ invoked = <<>>
    /\ loadPc = "off"
    /\ loader = "index.mjs"
    /\ options = [name |-> Undefined, version |-> Undefined]
    /\ packageJson = NoPackageJson
    /\ name = Undefined
    /\ version = Undefined
    /\ resolvePc = "idle"
    /\ cvInput = NoValue
    /\ cvOutput = NoValue
    /\ cvResponse = NoResponse
    /\ cvPc = "idle"
    /\ loggerKey = "none"
    /\ log = "module"
    /\ debugCalls = NoDebugCalls
    /\ served = <<>>
    /\ logPc = "idle"

BridgeNext ==
    \/ PatchedHandleRequest /\ UNCHANGED <<extractVars, captureVars, serverVars, loadVars, resolveVars, convertVars, loggerVars>>
    \/ BearerHandleRequest /\ UNCHANGED <<extractVars, captureVars, serverVars, loadVars, resolveVars, convertVars, loggerVars>>
    \/ ToolsCall /\ UNCHANGED <<extractVars, captureVars, serverVars, loadVars, resolveVars, convertVars, loggerVars>>
    \/ HandleRequestReturns /\ UNCHANGED <<extractVars, captureVars, serverVars, loadVars, resolveVars, convertVars, loggerVars>>

SpecBridge == InitBridge /\ [][BridgeNext]_vars

\* mcpServer() called on each directory of up to MaxFiles files
InitLoad ==
    /\ loader \in Loaders
    /\ toolsDir \in ToolsDirsOf[loader]
    /\ toolFiles = <<>>
    /\ fileIdx = 1
    /\ pending = {}
    /\ toolCount = 0
    /\ registeredTools = {}
    /\ loadLog = <<>>
    /\ invoked = <<>>
    /\ loadPc = "readdir"
    /\ bridge = "patch"
    /\ requestHandlers = NoToolsCall
    /\ currentBearerToken = Undefined
    /\ handling = EmptyBag
    /\ toolEv = NoToolEvent
    /\ authToken \in AuthTokens
    /\ authCallback = FALSE
    /\ inflight = EmptyBag
    /\ ev = NoEvent
    /\ exHeaders = NoHeaders
    /\ exToken = Undefined
    /\ exPc = "idle"
    /\ capWrapped = NewResponse
    /\ capPlain = NewResponse
    /\ capCalls = <<>>
    /\ options = [name |-> Undefined, version |-> Undefined]
    /\ packageJson = NoPackageJson
    /\ name = Undefined
    /\ version = Undefined
    /\ resolvePc = "idle"
    /\ cvInput = NoValue
    /\ cvOutput = NoValue
    /\ cvResponse = NoResponse
    /\ cvPc = "idle"
    /\ loggerKey = "none"
    /\ log = "module"
    /\ debugCalls = NoDebugCalls
    /\ served = <<>>
    /\ logPc = "idle"

LoadNext ==
    \/ ReadToolsDir /\ UNCHANGED <<extractVars, captureVars, serverVars, bridgeVars, resolveVars, convertVars, loggerVars>>
    \/ LoadNextTool /\ UNCHANGED <<extractVars, captureVars, serverVars, bridgeVars, resolveVars, convertVars, loggerVars>>
    \/ ToolSettles /\ UNCHANGED <<extractVars, captureVars, serverVars, bridgeVars, resolveVars, convertVars, loggerVars>>
    \/ Connect /\ UNCHANGED <<extractVars, captureVars, serverVars, bridgeVars, resolveVars, convertVars, loggerVars>>
    \/ Listen /\ UNCHANGED <<extractVars, captureVars, serverVars, bridgeVars, resolveVars, convertVars, loggerVars>>
    \/ ServeListening /\ UNCHANGED <<extractVars, captureVars, bridgeVars, resolveVars, convertVars, loggerVars>>

SpecLoad == InitLoad /\ [][LoadNext]_vars

\* mcpServer() called with each choice of the options name and version, over
\* each package.json
InitResolve ==
    /\ options \in [name : OptionNames, version : OptionVersions]
    /\ packageJson \in PackageJsons
    /\ name = options.name
    /\ version = options.version
    /\ resolvePc = "start"
    /\ exHeaders = NoHeaders
    /\ exToken = Undefined
    /\ exPc = "idle"
    /\ capWrapped = NewResponse
    /\ capPlain = NewResponse
    /\ capCalls = <<>>
    /\ authToken = Undefined
    /\ authCallback = FALSE
    /\ inflight = EmptyBag
    /\ ev = NoEvent
    /\ bridge = "patch"
    /\ requestHandlers = NoToolsCall
    /\ currentBearerToken = Undefined
    /\ handling = EmptyBag
    /\ toolEv = NoToolEvent
    /\ toolsDir = Unreadable
    /\ toolFiles = <<>>
    /\ fileIdx = 1
    /\ pending = {}
    /\ toolCount = 0
    /\ registeredTools = {}
    /\ loadLog = <<>>
    /\ invoked = <<>>
    /\ loadPc = "off"
    /\ loader = "index.mjs"
    /\ cvInput = NoValue
    /\ cvOutput = NoValue
    /\ cvResponse = NoResponse
    /\ cvPc = "idle"
    /\ loggerKey = "none"
    /\ log = "module"
    /\ debugCalls = NoDebugCalls
    /\ served = <<>>
    /\ logPc = "idle"

ResolveNext ==
    \/ ResolveNameVersion /\ UNCHANGED <<extractVars, captureVars, serverVars, bridgeVars, loadVars, convertVars, loggerVars>>

SpecResolve == InitResolve /\ [][ResolveNext]_vars

\* convertBigIntToString and buildResponse called on each value of InputValues
InitConvert ==
    /\ cvInput \in InputValues
    /\ cvOutput = NoValue
    /\ cvResponse = NoResponse
    /\ cvPc = "start"
    /\ exHeaders = NoHeaders
    /\ exToken = Undefined
    /\ exPc = "idle"
    /\ capWrapped = NewResponse
    /\ capPlain = NewResponse
    /\ capCalls = <<>>
    /\ authToken = Undefined
    /\ authCallback = FALSE
    /\ inflight = EmptyBag
    /\ ev = NoEvent
    /\ bridge = "patch"
    /\ requestHandlers = NoToolsCall
    /\ currentBearerToken = Undefined
    /\ handling = EmptyBag
    /\ toolEv = NoToolEvent
    /\ toolsDir = Unreadable
    /\ toolFiles = <<>>
    /\ fileIdx = 1
    /\ pending = {}
    /\ toolCount = 0
    /\ registeredTools = {}
    /\ loadLog = <<>>
    /\ invoked = <<>>
    /\ loadPc = "off"
    /\ loader = "index.mjs"
    /\ options = [name |-> Undefined, version |-> Undefined]
    /\ packageJson = NoPackageJson
    /\ name = Undefined
    /\ version = Undefined
    /\ resolvePc = "idle"
    /\ loggerKey = "none"
    /\ log = "module"
    /\ debugCalls = NoDebugCalls
    /\ served = <<>>
    /\ logPc = "idle"

ConvertNext ==
    \/ CallConvert /\ UNCHANGED <<extractVars, captureVars, serverVars, bridgeVars, loadVars, resolveVars, loggerVars>>
    \/ CallBuildResponse /\ UNCHANGED <<extractVars, captureVars, serverVars, bridgeVars, loadVars, resolveVars, loggerVars>>

SpecConvert == InitConvert /\ [][ConvertNext]_vars

\* mcpServer called with a logger instance under one of the keys, then serving
InitLogger ==
    /\ loggerKey \in OptionKeys
    /\ log = "module"
    /\ debugCalls = NoDebugCalls
    /\ served = <<>>
    /\ logPc = "called"
    /\ exHeaders = NoHeaders
    /\ exToken = Undefined
    /\ exPc = "idle"
    /\ capWrapped = NewResponse
    /\ capPlain = NewResponse
    /\ capCalls = <<>>
    /\ authToken = Undefined
    /\ authCallback = FALSE
    /\ inflight = EmptyBag
    /\ ev = NoEvent
    /\ bridge = "patch"
    /\ requestHandlers = NoToolsCall
    /\ currentBearerToken = Undefined
    /\ handling = EmptyBag
    /\ toolEv = NoToolEvent
    /\ toolsDir = Unreadable
    /\ toolFiles = <<>>
    /\ fileIdx = 1
    /\ pending = {}
    /\ toolCount = 0
    /\ registeredTools = {}
    /\ loadLog = <<>>
    /\ invoked = <<>>
    /\ loadPc = "off"
    /\ loader = "index.mjs"
    /\ options = [name |-> Undefined, version |-> Undefined]
    /\ packageJson = NoPackageJson
    /\ name = Undefined
    /\ version = Undefined
    /\ resolvePc = "idle"
    /\ cvInput = NoValue
    /\ cvOutput = NoValue
    /\ cvResponse = NoResponse
    /\ cvPc = "idle"

LoggerNext ==
    \/ Destructure /\ UNCHANGED <<extractVars, captureVars, serverVars, bridgeVars, loadVars, resolveVars, convertVars>>
    \/ Startup /\ UNCHANGED <<extractVars, captureVars, serverVars, bridgeVars, loadVars, resolveVars, convertVars>>
    \/ Serve /\ UNCHANGED <<extractVars, captureVars, serverVars, bridgeVars, loadVars, resolveVars, convertVars>>

SpecLogger == InitLogger /\ [][LoggerNext]_vars

\* one request followed through the chain of index.mjs, under each
\* configuration: the auth callback settles in the end, and the dispatcher
\* in the end finishes the response or throws
InitLive ==
    /\ authToken \in AuthTokens
    /\ authCallback \in BOOLEAN
    /\ inflight = EmptyBag
    /\ ev = NoEvent
    /\ exHeaders = NoHeaders
    /\ exToken = Undefined
    /\ exPc = "idle"
    /\ capWrapped = NewResponse
    /\ capPlain = NewResponse
    /\ capCalls = <<>>
    /\ bridge = "patch"
    /\ requestHandlers = NoToolsCall
    /\ currentBearerToken = Undefined
    /\ handling = EmptyBag
    /\ toolEv = NoToolEvent
    /\ toolsDir = Unreadable
    /\ toolFiles = <<>>
    /\ fileIdx = 1
    /\ pending = {}
    /\ toolCount = 0
    /\ registeredTools = {}
    /\ loadLog = <<>>
    /\ invoked = <<>>
    /\ loadPc = "off"
    /\ loader = "index.mjs"
    /\ options = [name |-> Undefined, version |-> Undefined]
    /\ packageJson = NoPackageJson
    /\ name = Undefined
    /\ version = Undefined
    /\ resolvePc = "idle"
    /\ cvInput = NoValue
    /\ cvOutput = NoValue
    /\ cvResponse = NoResponse
    /\ cvPc = "idle"
    /\ loggerKey = "none"
    /\ log = "module"
    /\ debugCalls = NoDebugCalls
    /\ served = <<>>
    /\ logPc = "idle"

LiveNext ==
    \/ ReceiveOne /\ UNCHANGED <<extractVars, captureVars, bridgeVars, loadVars, resolveVars, convertVars, loggerVars>>
    \/ AuthCallbackSettles /\ UNCHANGED <<extractVars, captureVars, bridgeVars, loadVars, resolveVars, convertVars, loggerVars>>
    \/ DispatcherWrites /\ UNCHANGED <<extractVars, captureVars, bridgeVars, loadVars, resolveVars, convertVars, loggerVars>>
    \/ DispatcherEnds /\ UNCHANGED <<extractVars, captureVars, bridgeVars, loadVars, resolveVars, convertVars, loggerVars>>
    \/ DispatcherThrows /\ UNCHANGED <<extractVars, captureVars, bridgeVars, loadVars, resolveVars, convertVars, loggerVars>>

SpecLive ==
    /\ InitLive
    /\ [][LiveNext]_vars
    /\ WF_vars(AuthCallbackSettles /\ UNCHANGED <<extractVars, captureVars, bridgeVars, loadVars, resolveVars, convertVars, loggerVars>>)
    /\ WF_vars((DispatcherEnds \/ DispatcherThrows) /\ UNCHANGED <<extractVars, captureVars, bridgeVars, loadVars, resolveVars, convertVars, loggerVars>>)

=============================================================================
